---- MODULE Spec2Model ----
(***************************************************************************)
(* A model of the kanban backend (backend/app): the SQLite board store     *)
(* (db.py), the reconciliation of a board payload into write inputs        *)
(* (board.py), the board routes (routes/board.py) and the AI route with    *)
(* its reply parser (routes/ai.py, ai.py).                                 *)
(***************************************************************************)
EXTENDS Integers, Sequences, FiniteSets, TLC

VARIABLES
  colRows,    \* table columns, in rowid order: rows [id, title, position]
  cardRows,   \* table cards, in rowid order
  utc,        \* the wall clock read by db.utc_now()
  monotonic,  \* the clock read by time.monotonic()
  sessions,   \* auth._active_sessions: token -> creation time
  payload,    \* the BoardPayload of the request under study
  inputs,     \* a (column_inputs, card_inputs) pair handed to replace_board
  resp,       \* the response of the request under study
  pc,         \* where the request under study stands
  response,   \* the text handed to parse_ai_board_response
  parsed,     \* what parse_ai_board_response made of it
  get,        \* a GET /api/board in progress
  ai,         \* a POST /api/ai/board in progress
  history,    \* every board a transaction has committed so far
  ai_request_times,  \* routes/ai.py _ai_request_times: token -> times of admitted calls
  log,        \* the requests answered so far, in order, with their answers
  gateway,    \* a call of call_openrouter_messages: its environment and its outcome
  replacing,  \* the replace_board calls in progress: connection -> what it holds
  login_attempts     \* routes/auth.py _login_attempts: client address -> times of attempts

vars == <<colRows, cardRows, utc, monotonic, sessions, payload, inputs, resp, pc,
          response, parsed, get, ai, history, ai_request_times, log, gateway, replacing, login_attempts>>

\* the variables of the other requests, for the specifications of one request
others == <<response, parsed, get, ai, history, ai_request_times, log, gateway, replacing, login_attempts>>

(***************************************************************************)
(* Bounds of the model.                                                    *)
(***************************************************************************)
\* columns plus card references of a request board
MaxBoardSize == 3
\* rows of each kind handed directly to replace_board
MaxInputs == 2
\* the wall clock stops here
MaxUtc == 2

(***************************************************************************)
(* Generic helpers.                                                        *)
(***************************************************************************)
Range(s) == {s[i] : i \in DOMAIN s}

SeqsUpTo(S, n) == UNION {[1..k -> S] : k \in 0..n}

RemoveAt(s, i) == [j \in 1..(Len(s) - 1) |-> IF j < i THEN s[j] ELSE s[j + 1]]

\* pairs <<key, row>>: a stable sort by key, as ORDER BY over rows in rowid order
RECURSIVE SortByKey(_)
SortByKey(pairs) ==
  IF pairs = <<>> THEN <<>>
  ELSE LET m == CHOOSE i \in DOMAIN pairs :
                  /\ \A j \in DOMAIN pairs : pairs[i][1] <= pairs[j][1]
                  /\ \A j \in 1..(i - 1) : pairs[j][1] > pairs[i][1]
       IN <<pairs[m]>> \o SortByKey(RemoveAt(pairs, m))

(***************************************************************************)
(* The identifiers and texts requests are built from.                      *)
(***************************************************************************)
CardIds == {"card-1", "card-9"}
ColIds == {"col-backlog", "col-1"}
Titles == {"Todo", "Done"}
Details == {"B"}

\* Every id of the model in str order, as SQLite's ORDER BY column_id compares them.
IdOrder == <<"card-1", "card-2", "card-3", "card-4", "card-5", "card-6",
             "card-7", "card-8", "card-9", "col-1", "col-backlog",
             "col-discovery", "col-done", "col-progress", "col-review">>

IdRank(id) == CHOOSE i \in DOMAIN IdOrder : IdOrder[i] = id

(***************************************************************************)
(* db.py: the seed.                                                        *)
(***************************************************************************)
DEFAULT_COLUMNS ==
  << [id |-> "col-backlog", title |-> "Backlog", position |-> 0],
     [id |-> "col-discovery", title |-> "Discovery", position |-> 1],
     [id |-> "col-progress", title |-> "In Progress", position |-> 2],
     [id |-> "col-review", title |-> "Review", position |-> 3],
     [id |-> "col-done", title |-> "Done", position |-> 4] >>

DEFAULT_CARDS ==
  << [id |-> "card-1", column_id |-> "col-backlog", title |-> "Align roadmap themes",
      details |-> "Draft quarterly themes with impact statements and metrics.", position |-> 0],
     [id |-> "card-2", column_id |-> "col-backlog", title |-> "Gather customer signals",
      details |-> "Review support tags, sales notes, and churn feedback.", position |-> 1],
     [id |-> "card-3", column_id |-> "col-discovery", title |-> "Prototype analytics view",
      details |-> "Sketch initial dashboard layout and key drill-downs.", position |-> 0],
     [id |-> "card-4", column_id |-> "col-progress", title |-> "Refine status language",
      details |-> "Standardize column labels and tone across the board.", position |-> 0],
     [id |-> "card-5", column_id |-> "col-progress", title |-> "Design card layout",
      details |-> "Add hierarchy and spacing for scanning dense lists.", position |-> 1],
     [id |-> "card-6", column_id |-> "col-review", title |-> "QA micro-interactions",
      details |-> "Verify hover, focus, and loading states.", position |-> 0],
     [id |-> "card-7", column_id |-> "col-done", title |-> "Ship marketing page",
      details |-> "Final copy approved and asset pack delivered.", position |-> 0],
     [id |-> "card-8", column_id |-> "col-done", title |-> "Close onboarding sprint",
      details |-> "Document release notes and share internally.", position |-> 1] >>

\* One row of table columns / of table cards (board_id is the one board's id throughout).
ColumnRow(column) ==
  [id |-> column.id, title |-> column.title, position |-> column.position]

CardRow(card, created_at, now) ==
  [id |-> card.id, column_id |-> card.column_id, title |-> card.title,
   details |-> card.details, position |-> card.position,
   created_at |-> created_at, updated_at |-> now]

\* seed_board at time now, on the empty tables init_db has just created
seed_board(now) ==
  [colRows |-> [i \in DOMAIN DEFAULT_COLUMNS |-> ColumnRow(DEFAULT_COLUMNS[i])],
   cardRows |-> [i \in DOMAIN DEFAULT_CARDS |-> CardRow(DEFAULT_CARDS[i], now, now)]]

(***************************************************************************)
(* db.py: fetch_board, as its two SELECTs and the assembly of their rows.  *)
(***************************************************************************)
\* SELECT id, title, position FROM columns ORDER BY position
SelectColumns(cols) ==
  LET sorted == SortByKey([i \in DOMAIN cols |-> <<cols[i].position, cols[i]>>])
  IN [i \in DOMAIN sorted |-> sorted[i][2]]

\* SELECT id, column_id, title, details, position FROM cards ORDER BY column_id, position
SelectCards(cards) ==
  LET top == 1 + Len(cards)
      key(r) == IdRank(r.column_id) * top * top + r.position
      sorted == SortByKey([i \in DOMAIN cards |-> <<key(cards[i]), cards[i]>>])
  IN [i \in DOMAIN sorted |-> sorted[i][2]]

\* cards_by_id, cards_by_column and the columns list built from the two row lists
AssembleBoard(columns_rows, cards_rows) ==
  LET ids == {cards_rows[i].id : i \in DOMAIN cards_rows}
      last(id) == CHOOSE i \in DOMAIN cards_rows :
                    /\ cards_rows[i].id = id
                    /\ \A j \in DOMAIN cards_rows : cards_rows[j].id = id => j <= i
      cards_by_id == [id \in ids |->
                        [id |-> id, title |-> cards_rows[last(id)].title,
                         details |-> cards_rows[last(id)].details]]
      column_cards(cid) == SelectSeq(cards_rows, LAMBDA r : r.column_id = cid)
  IN [columns |-> [i \in DOMAIN columns_rows |->
                     [id |-> columns_rows[i].id, title |-> columns_rows[i].title,
                      cardIds |-> [k \in DOMAIN column_cards(columns_rows[i].id) |->
                                     column_cards(columns_rows[i].id)[k].id]]],
      cards |-> cards_by_id]

fetch_board(cols, cards) == AssembleBoard(SelectColumns(cols), SelectCards(cards))

(***************************************************************************)
(* db.py: replace_board, statement by statement, inside one transaction.   *)
(* A transaction in progress is [ok, colRows, cardRows]: the tables as the *)
(* writing connection sees them, and whether a statement has raised.       *)
(***************************************************************************)
\* existing_created.get(card.id, now)
ExistingCreated(old_cards, id, now) ==
  IF \E i \in DOMAIN old_cards : old_cards[i].id = id
  THEN old_cards[CHOOSE i \in DOMAIN old_cards : old_cards[i].id = id].created_at
  ELSE now

\* INSERT INTO columns: id is the PRIMARY KEY
InsertColumnOk(cols, column) == \A i \in DOMAIN cols : cols[i].id # column.id

\* INSERT INTO cards: id is the PRIMARY KEY, column_id REFERENCES columns(id)
\* (PRAGMA foreign_keys = ON, an immediate constraint)
InsertCardOk(cols, cards, card) ==
  /\ \A i \in DOMAIN cards : cards[i].id # card.id
  /\ \E i \in DOMAIN cols : cols[i].id = card.column_id

RECURSIVE InsertColumns(_, _, _)
InsertColumns(cols, columns, i) ==
  IF i > Len(columns) THEN [ok |-> TRUE, colRows |-> cols]
  ELSE IF ~InsertColumnOk(cols, columns[i]) THEN [ok |-> FALSE, colRows |-> cols]
  ELSE InsertColumns(Append(cols, ColumnRow(columns[i])), columns, i + 1)

RECURSIVE InsertCards(_, _, _, _, _, _)
InsertCards(cols, rows, cards, i, old_cards, now) ==
  IF i > Len(cards) THEN [ok |-> TRUE, cardRows |-> rows]
  ELSE IF ~InsertCardOk(cols, rows, cards[i]) THEN [ok |-> FALSE, cardRows |-> rows]
  ELSE InsertCards(cols,
                   Append(rows, CardRow(cards[i], ExistingCreated(old_cards, cards[i].id, now), now)),
                   cards, i + 1, old_cards, now)

\* a DELETE FROM cards that removes nothing
DeleteCardsSkipped(rows) == rows

\* DELETE FROM cards WHERE board_id = ?: the one board holds every row
DeleteCards(rows) == SubSeq(rows, 1, 0)

\* DELETE FROM columns WHERE board_id = ?
DeleteColumns(rows) == SubSeq(rows, 1, 0)

\* SELECT id, created_at FROM cards WHERE board_id = ?: the first statement of
\* replace_board.  No statement before it has opened a transaction on the connection,
\* so it reads what is committed at that moment.
SelectCreated(rows) ==
  [i \in DOMAIN rows |-> [id |-> rows[i].id, created_at |-> rows[i].created_at]]

\* replace_board from its first DELETE on, with the rows its SELECT returned: the two
\* DELETEs, then the inserts until one raises sqlite3.IntegrityError.
ReplaceSelected(existing_created, old_cols, old_cards, columns, cards, now) ==
  LET c == InsertColumns(DeleteColumns(old_cols), columns, 1)
      k == InsertCards(c.colRows, DeleteCards(old_cards), cards, 1, existing_created, now)
  IN IF ~c.ok THEN [ok |-> FALSE, colRows |-> c.colRows, cardRows |-> DeleteCards(old_cards)]
     ELSE [ok |-> k.ok, colRows |-> c.colRows, cardRows |-> k.cardRows]

\* replace_board when no other connection commits between its SELECT and its DELETE
replace_board(old_cols, old_cards, columns, cards, now) ==
  ReplaceSelected(SelectCreated(old_cards), old_cols, old_cards, columns, cards, now)

\* a connection that commits whatever the block did, also when it raised
ConnectionExitNoRollback(old_cols, old_cards, txn) ==
  [colRows |-> txn.colRows, cardRows |-> txn.cardRows]

\* `with db.get_connection(...) as conn:` leaves the block by COMMIT, or by ROLLBACK
\* when the block raised.
ConnectionExit(old_cols, old_cards, txn) ==
  IF txn.ok THEN [colRows |-> txn.colRows, cardRows |-> txn.cardRows]
  ELSE [colRows |-> old_cols, cardRows |-> old_cards]

(***************************************************************************)
(* db.py: the dataclasses.                                                 *)
(***************************************************************************)
ColumnInputFields == {"id", "title", "position"}

\* a ColumnInput that takes any keywords and keeps those that are its fields
ColumnInputAnyKeywords(kwargs) ==
  [ok |-> TRUE, value |-> [f \in ColumnInputFields |-> kwargs[f]]]

\* ColumnInput(**kwargs): the generated __init__ raises TypeError on a keyword that
\* is no field of the dataclass.
ColumnInput(kwargs) ==
  IF DOMAIN kwargs = ColumnInputFields
  THEN [ok |-> TRUE, value |-> [f \in ColumnInputFields |-> kwargs[f]]]
  ELSE [ok |-> FALSE, value |-> [f \in ColumnInputFields |-> ""]]

(***************************************************************************)
(* board.py: build_board_inputs.  Its outcome is                           *)
(* [raised, status, detail, column_inputs, card_inputs]: raised is "" when *)
(* it returns, else the exception's class; status and detail are what the  *)
(* client gets when the exception leaves the handler.                      *)
(***************************************************************************)
Returned(column_inputs, card_inputs) ==
  [raised |-> "", status |-> 200, detail |-> "",
   column_inputs |-> column_inputs, card_inputs |-> card_inputs]

Raised(class, status, detail) ==
  [raised |-> class, status |-> status, detail |-> detail,
   column_inputs |-> <<>>, card_inputs |-> <<>>]

\* raise HTTPException(status_code=400, detail="invalid_board")
InvalidBoard == Raised("HTTPException", 400, "invalid_board")

\* an exception no handler catches: the server answers 500
Uncaught(class) == Raised(class, 500, "Internal Server Error")

\* for position, card_id in enumerate(column.cardIds)
RECURSIVE CardLoop(_, _, _, _)
CardLoop(board, column, position, card_inputs) ==
  IF position >= Len(column.cardIds) THEN Returned(<<>>, card_inputs)
  ELSE LET card_id == column.cardIds[position + 1]
       IN IF card_id \notin DOMAIN board.cards THEN InvalidBoard
          ELSE LET card == board.cards[card_id]
               IN CardLoop(board, column, position + 1,
                           Append(card_inputs,
                                  [id |-> card.id, column_id |-> column.id,
                                   title |-> card.title, details |-> card.details,
                                   position |-> position]))

\* for index, column in enumerate(payload.columns)
RECURSIVE ColumnLoop(_, _, _, _)
ColumnLoop(board, index, column_inputs, card_inputs) ==
  IF index >= Len(board.columns) THEN Returned(column_inputs, card_inputs)
  ELSE LET column == board.columns[index + 1]
           made == ColumnInput([id |-> column.id, title |-> column.title,
                                position |-> index, card_ids |-> column.cardIds])
       IN IF ~made.ok THEN Uncaught("TypeError")
          ELSE LET inner == CardLoop(board, column, 0, card_inputs)
               IN IF inner.raised # "" THEN inner
                  ELSE ColumnLoop(board, index + 1,
                                  Append(column_inputs, made.value), inner.card_inputs)

build_board_inputs(board) ==
  LET loop == ColumnLoop(board, 0, <<>>, <<>>)
  IN IF loop.raised # "" THEN loop
     ELSE IF Len(loop.card_inputs) # Cardinality(DOMAIN board.cards) THEN InvalidBoard
     ELSE loop

(***************************************************************************)
(* auth.py: the session store.                                             *)
(***************************************************************************)
SESSION_TTL == 86400

\* the cookie values a request may carry: none, a token login issued, a made-up one
Tokens == {"token-1"}
NoCookie == ""
Cookies == Tokens \cup {NoCookie, "forged"}

\* an is_authenticated that takes every cookie
is_authenticated_anyone(store, token, now) == [ok |-> TRUE, sessions |-> store]

\* is_authenticated: [ok, sessions], the store after the call (an expired entry is popped)
is_authenticated(store, token, now) ==
  IF token = NoCookie THEN [ok |-> FALSE, sessions |-> store]
  ELSE IF token \notin DOMAIN store THEN [ok |-> FALSE, sessions |-> store]
  ELSE IF now - store[token] > SESSION_TTL
       THEN [ok |-> FALSE,
             sessions |-> [t \in (DOMAIN store) \ {token} |-> store[t]]]
  ELSE [ok |-> TRUE, sessions |-> store]

\* create_session: expired entries are evicted, the new token is stored
create_session(store, token, now) ==
  LET live == {t \in DOMAIN store : ~(now - store[t] > SESSION_TTL)}
  IN [t \in live \cup {token} |-> IF t = token THEN now ELSE store[t]]

\* an invalidate_session that pops nothing
invalidate_session_kept(store, token) == store

\* invalidate_session: the cookie's token, if any, is popped
invalidate_session(store, token) == [t \in (DOMAIN store) \ {token} |-> store[t]]

\* require_auth raises this when is_authenticated is false
Unauthorized == [status |-> 401, detail |-> "unauthorized"]

(***************************************************************************)
(* models.py: the board payloads requests carry, within the bounds.        *)
(***************************************************************************)
RECURSIVE SumCardIds(_)
SumCardIds(columns) ==
  IF columns = <<>> THEN 0 ELSE Len(Head(columns).cardIds) + SumCardIds(Tail(columns))

CardPayloads(titles) == [id : CardIds, title : titles, details : Details]

ColumnPayloads(titles, n) == [id : ColIds, title : titles, cardIds : SeqsUpTo(CardIds, n)]

ColumnLists(titles) ==
  UNION {{cs \in [1..k -> ColumnPayloads(titles, MaxBoardSize - k)] :
            k + SumCardIds(cs) <= MaxBoardSize} : k \in 0..MaxBoardSize}

CardMaps(titles) == UNION {[K -> CardPayloads(titles)] : K \in SUBSET CardIds}

BoardPayloads(titles) == [columns : ColumnLists(titles), cards : CardMaps(titles)]

\* the boards of the one-request specifications, and those of the concurrent one
AllBoards == BoardPayloads(Titles)
RequestBoards == BoardPayloads({"Todo"})

EmptyBoard == [columns |-> <<>>, cards |-> <<>>]

(***************************************************************************)
(* routes/board.py: the handlers' outcomes.                                *)
(***************************************************************************)
Response(status, detail, board) == [status |-> status, detail |-> detail, board |-> board]

NoResponse == Response(0, "", EmptyBoard)

\* ai.py: what parse_ai_board_response returns or raises
NoMessage == [present |-> FALSE, text |-> ""]

NoAiBoardResponse ==
  [schemaVersion |-> 0, board |-> EmptyBoard, operations |-> <<>>, assistantMessage |-> NoMessage]

Parsed(value) == [raised |-> "", status |-> 200, detail |-> "", value |-> value]

ParseRaised(class, status, detail) ==
  [raised |-> class, status |-> status, detail |-> detail, value |-> NoAiBoardResponse]

BadGateway(detail) == ParseRaised("HTTPException", 502, detail)

ParseUncaught(class) == ParseRaised(class, 500, "Internal Server Error")

NotParsed == ParseRaised("", 0, "")

\* the reader of GET /api/board and the request of POST /api/ai/board, at rest
IdleGet == [pc |-> "idle", status |-> 0, columns_rows |-> <<>>, board |-> EmptyBoard]

\* (summary: is_summary_request(messages); called: call_openrouter_messages was
\* entered; operations and assistantMessage: those members of the body returned, the
\* message as its lines, <<>> when the body has none; reads, gateway_calls, writes:
\* the calls of fetch_board before the gateway call, of call_openrouter_messages and
\* of replace_board so far; connections: the sqlite3 connections the handler has
\* opened and not closed)
IdleAi == [pc |-> "idle", status |-> 0, detail |-> "", summary |-> FALSE,
           columns_rows |-> <<>>, board |-> EmptyBoard, called |-> FALSE,
           schemaVersion |-> 0, operations |-> <<>>, assistantMessage |-> <<>>,
           reads |-> 0, gateway_calls |-> 0, writes |-> 0, connections |-> 0]

\* no call of POST /api/ai/board admitted yet, nothing logged, no gateway call
NoCalls ==
  /\ ai_request_times = <<>>
  /\ log = <<>>
  /\ gateway = <<>>
  /\ replacing = <<>>
  /\ login_attempts = <<>>

NoOthers ==
  /\ response = <<>>
  /\ parsed = NotParsed
  /\ get = IdleGet
  /\ ai = IdleAi
  /\ history = {}
  /\ NoCalls

\* update_board after require_auth: [resp, colRows, cardRows]
update_board(cols, cards, board, now) ==
  LET built == build_board_inputs(board)
      txn == replace_board(cols, cards, built.column_inputs, built.card_inputs, now)
      after == ConnectionExit(cols, cards, txn)
  IN IF built.raised # ""
     THEN [resp |-> Response(built.status, built.detail, EmptyBoard),
           colRows |-> cols, cardRows |-> cards]
     ELSE IF ~txn.ok
     THEN [resp |-> Response(500, "Internal Server Error", EmptyBoard),
           colRows |-> after.colRows, cardRows |-> after.cardRows]
     ELSE [resp |-> Response(200, "", fetch_board(txn.colRows, txn.cardRows)),
           colRows |-> after.colRows, cardRows |-> after.cardRows]

(***************************************************************************)
(* The initial state: init_db has seeded the board at time 0.              *)
(***************************************************************************)
NoInputs == Returned(<<>>, <<>>)

InitStore ==
  /\ colRows = seed_board(0).colRows
  /\ cardRows = seed_board(0).cardRows
  /\ utc = 0
  /\ monotonic = 0

\* the wall clock advances
Tick ==
  /\ utc < MaxUtc
  /\ utc' = utc + 1
  /\ UNCHANGED <<colRows, cardRows, monotonic, sessions, payload, inputs, resp, pc, others>>

(***************************************************************************)
(* SpecPut: one PUT /api/board from a logged-in client, for every board    *)
(* payload of the bounds.                                                  *)
(***************************************************************************)
InitPut ==
  /\ InitStore
  /\ sessions = [t \in Tokens |-> 0]
  /\ payload \in AllBoards
  /\ inputs = NoInputs
  /\ resp = NoResponse
  /\ pc = "request"
  /\ NoOthers

PutBoard ==
  /\ pc = "request"
  /\ LET auth == is_authenticated(sessions, "token-1", monotonic)
         out == update_board(colRows, cardRows, payload, utc)
     IN /\ sessions' = auth.sessions
        /\ IF ~auth.ok
           THEN /\ resp' = Response(Unauthorized.status, Unauthorized.detail, EmptyBoard)
                /\ UNCHANGED <<colRows, cardRows, inputs>>
           ELSE /\ resp' = out.resp
                /\ colRows' = out.colRows
                /\ cardRows' = out.cardRows
                /\ inputs' = build_board_inputs(payload)
  /\ pc' = "responded"
  /\ UNCHANGED <<utc, monotonic, payload, others>>

NextPut == PutBoard \/ (pc = "request" /\ Tick)

SpecPut == InitPut /\ [][NextPut]_vars

(***************************************************************************)
(* What the claims call a board's referential integrity.                   *)
(***************************************************************************)
\* the places (column, index) of a board where card id is referenced
Places(board, id) ==
  UNION {{<<c, k>> : k \in {k \in DOMAIN board.columns[c].cardIds :
                               board.columns[c].cardIds[k] = id}} :
           c \in DOMAIN board.columns}

AllRefs(board) ==
  UNION {Range(board.columns[c].cardIds) : c \in DOMAIN board.columns}

\* some column references an id that is no key of cards
HasMissingCard(board) == \E id \in AllRefs(board) : id \notin DOMAIN board.cards

\* some key of cards is referenced by no column
HasUnusedCard(board) == \E id \in DOMAIN board.cards : id \notin AllRefs(board)

ReferentialIntegrity(board) ==
  /\ ~HasMissingCard(board)
  /\ \A id \in DOMAIN board.cards : Cardinality(Places(board, id)) = 1

SeedRows == seed_board(0)

StoreIsSeed == colRows = SeedRows.colRows /\ cardRows = SeedRows.cardRows

(***************************************************************************)
(* C2-C5: build_board_inputs and the PUT built on it, under SpecPut.       *)
(***************************************************************************)
\* C2: a PUT whose board has a column referencing an id that is no key of cards is
\* answered 400 with the generic detail invalid_board, and the stored board is unchanged.
MissingCardIs400 ==
  (pc = "responded" /\ HasMissingCard(payload)) =>
    /\ resp.status = 400
    /\ resp.detail = "invalid_board"
    /\ StoreIsSeed

\* C3: a PUT whose board has a card that no column references is answered 400
\* invalid_board, whatever else the columns' cardIds hold.
UnusedCardIs400 ==
  (pc = "responded" /\ HasUnusedCard(payload)) =>
    /\ resp.status = 400
    /\ resp.detail = "invalid_board"

\* C4: for a board with referential integrity, build_board_inputs, replace_board and
\* fetch_board in turn give back a board equal to it: same columns, order, titles,
\* cardIds, and the same cards mapping.
RoundTrip ==
  (pc = "responded" /\ ReferentialIntegrity(payload)) =>
    /\ resp.status = 200
    /\ resp.board = payload
    /\ fetch_board(colRows, cardRows) = payload

\* the write set the claim describes for a valid board
ColumnWrites(board) ==
  [i \in DOMAIN board.columns |->
     [id |-> board.columns[i].id, title |-> board.columns[i].title,
      position |-> i - 1, card_ids |-> board.columns[i].cardIds]]

RECURSIVE CardWrites(_, _)
CardWrites(board, i) ==
  IF i > Len(board.columns) THEN <<>>
  ELSE LET column == board.columns[i]
       IN [k \in DOMAIN column.cardIds |->
             [id |-> board.cards[column.cardIds[k]].id, column_id |-> column.id,
              title |-> board.cards[column.cardIds[k]].title,
              details |-> board.cards[column.cardIds[k]].details,
              position |-> k - 1]]
          \o CardWrites(board, i + 1)

\* C5: for a valid board build_board_inputs returns one column-write per column in
\* column order (id, title, 0-based position, cardIds) and one card-write per card
\* (id, columnId, title, details, 0-based position within the column).
BuildsWriteSet ==
  (pc = "responded" /\ ReferentialIntegrity(payload)) =>
    /\ inputs.raised = ""
    /\ inputs.column_inputs = ColumnWrites(payload)
    /\ inputs.card_inputs = CardWrites(payload, 1)

(***************************************************************************)
(* SpecDb: the handlers' `with conn:` block around replace_board, for      *)
(* every pair of input lists of the bounds, on the seeded store.           *)
(***************************************************************************)
Positions == {0, 1}

ColumnInputs == [id : ColIds, title : {"Todo"}, position : Positions]

CardInputs ==
  [id : CardIds, column_id : ColIds, title : {"Todo"}, details : Details,
   position : Positions]

InitDb ==
  /\ InitStore
  /\ sessions = [t \in Tokens |-> 0]
  /\ payload = EmptyBoard
  /\ inputs \in {Returned(cs, ks) : cs \in SeqsUpTo(ColumnInputs, MaxInputs),
                                     ks \in SeqsUpTo(CardInputs, MaxInputs)}
  /\ resp = NoResponse
  /\ pc = "request"
  /\ NoOthers

\* with db.get_connection(get_db_path()) as conn: db.replace_board(conn, ...)
ReplaceInTransaction ==
  /\ pc = "request"
  /\ LET txn == replace_board(colRows, cardRows, inputs.column_inputs,
                              inputs.card_inputs, utc)
         after == ConnectionExit(colRows, cardRows, txn)
     IN /\ colRows' = after.colRows
        /\ cardRows' = after.cardRows
        /\ resp' = IF txn.ok THEN Response(200, "", EmptyBoard)
                   ELSE Response(500, "Internal Server Error", EmptyBoard)
  /\ pc' = "responded"
  /\ UNCHANGED <<utc, monotonic, sessions, payload, inputs, others>>

NextDb == ReplaceInTransaction \/ (pc = "request" /\ Tick)

SpecDb == InitDb /\ [][NextDb]_vars

\* a statement of replace_board fails on these inputs: a repeated column id, a repeated
\* card id, or a card whose column is not among the columns
SomeInsertFails(columns, cards) ==
  \/ \E i, j \in DOMAIN columns : i # j /\ columns[i].id = columns[j].id
  \/ \E i, j \in DOMAIN cards : i # j /\ cards[i].id = cards[j].id
  \/ \E i \in DOMAIN cards : \A j \in DOMAIN columns : columns[j].id # cards[i].column_id

\* the stored rows without their timestamps
StoredColumns == {ColumnRow(colRows[i]) : i \in DOMAIN colRows}

StoredCards ==
  {[id |-> cardRows[i].id, column_id |-> cardRows[i].column_id,
    title |-> cardRows[i].title, details |-> cardRows[i].details,
    position |-> cardRows[i].position] : i \in DOMAIN cardRows}

\* C6: replace_board inside the handlers' transaction is all-or-nothing: when a
\* statement fails the stored board is the one before the call, otherwise it is
\* exactly the new columns and cards.
ReplaceAllOrNothing ==
  pc = "responded" =>
    IF SomeInsertFails(inputs.column_inputs, inputs.card_inputs)
    THEN resp.status = 500 /\ StoreIsSeed
    ELSE /\ resp.status = 200
         /\ Len(colRows) = Len(inputs.column_inputs)
         /\ Len(cardRows) = Len(inputs.card_inputs)
         /\ StoredColumns = Range(inputs.column_inputs)
         /\ StoredCards = Range(inputs.card_inputs)

\* a replacement that failed at its second card, after its column and first card
\* had been inserted, and left the seed in place
ReplaceRolledBack ==
  /\ pc = "responded"
  /\ resp.status = 500
  /\ Len(inputs.column_inputs) = 1
  /\ Len(inputs.card_inputs) = 2
  /\ inputs.card_inputs[1].column_id = inputs.column_inputs[1].id
  /\ inputs.card_inputs[2].id = inputs.card_inputs[1].id
  /\ StoreIsSeed

(***************************************************************************)
(* JSON.  A text is a sequence of lexemes [t, s]: t is "p" (one of the     *)
(* punctuation marks { } [ ] : ,), "str", "num", "bool", "null" (a JSON     *)
(* literal, s its content) or "prose" (characters that start no JSON       *)
(* value).  String literals of the model hold no brace.  A decoded value   *)
(* is [t, s, kids]: a scalar keeps its lexeme, an array ("arr") has its    *)
(* elements as kids, an object ("obj") its members ("mem": s the key, the  *)
(* value the one kid) in insertion order, as a Python dict has.            *)
(***************************************************************************)
Lexeme(t, s) == [t |-> t, s |-> s]

Punct(s) == Lexeme("p", s)

Scalars == {"str", "num", "bool", "null"}

JScalar(t, s) == [t |-> t, s |-> s, kids |-> <<>>]
JNull == JScalar("null", "null")
JTrue == JScalar("bool", "true")
JNum(s) == JScalar("num", s)
JStr(s) == JScalar("str", s)
JArr(kids) == [t |-> "arr", s |-> "", kids |-> kids]
JMem(key, value) == [t |-> "mem", s |-> key, kids |-> <<value>>]
JObj(members) == [t |-> "obj", s |-> "", kids |-> members]

\* d[key] = value on a dict's members: a repeated key keeps its place, takes the new value
DictSet(members, key, value) ==
  IF \E i \in DOMAIN members : members[i].s = key
  THEN [i \in DOMAIN members |-> IF members[i].s = key THEN JMem(key, value) ELSE members[i]]
  ELSE Append(members, JMem(key, value))

HasKey(obj, key) == \E i \in DOMAIN obj.kids : obj.kids[i].s = key

Get(obj, key) == obj.kids[CHOOSE i \in DOMAIN obj.kids : obj.kids[i].s = key].kids[1]

\* json.dumps, lexeme by lexeme
RECURSIVE Dumps(_)
RECURSIVE DumpsList(_, _)
Dumps(v) ==
  CASE v.t = "obj" -> <<Punct("{")>> \o DumpsList(v.kids, 1) \o <<Punct("}")>>
    [] v.t = "arr" -> <<Punct("[")>> \o DumpsList(v.kids, 1) \o <<Punct("]")>>
    [] v.t = "mem" -> <<Lexeme("str", v.s), Punct(":")>> \o Dumps(v.kids[1])
    [] OTHER -> <<Lexeme(v.t, v.s)>>

DumpsList(kids, i) ==
  IF i > Len(kids) THEN <<>>
  ELSE (IF i > 1 THEN <<Punct(",")>> ELSE <<>>) \o Dumps(kids[i]) \o DumpsList(kids, i + 1)

\* json.loads: the decoder's scan of one value from lexeme i, [ok, val, next]
ScanFail == [ok |-> FALSE, val |-> JNull, next |-> 0]

Scanned(val, next) == [ok |-> TRUE, val |-> val, next |-> next]

IsAt(text, i, lexeme) == i <= Len(text) /\ text[i] = lexeme

RECURSIVE ScanValue(_, _)
RECURSIVE ScanMembers(_, _, _)
RECURSIVE ScanElements(_, _, _)
ScanValue(text, i) ==
  IF i > Len(text) THEN ScanFail
  ELSE IF text[i] = Punct("{")
       THEN IF IsAt(text, i + 1, Punct("}")) THEN Scanned(JObj(<<>>), i + 2)
            ELSE ScanMembers(text, i + 1, <<>>)
  ELSE IF text[i] = Punct("[")
       THEN IF IsAt(text, i + 1, Punct("]")) THEN Scanned(JArr(<<>>), i + 2)
            ELSE ScanElements(text, i + 1, <<>>)
  ELSE IF text[i].t \in Scalars THEN Scanned(JScalar(text[i].t, text[i].s), i + 1)
  ELSE ScanFail

ScanMembers(text, i, members) ==
  IF ~(i <= Len(text) /\ text[i].t = "str" /\ IsAt(text, i + 1, Punct(":"))) THEN ScanFail
  ELSE LET v == ScanValue(text, i + 2)
       IN IF ~v.ok THEN ScanFail
          ELSE IF IsAt(text, v.next, Punct("}"))
               THEN Scanned(JObj(DictSet(members, text[i].s, v.val)), v.next + 1)
          ELSE IF IsAt(text, v.next, Punct(","))
               THEN ScanMembers(text, v.next + 1, DictSet(members, text[i].s, v.val))
          ELSE ScanFail

ScanElements(text, i, elements) ==
  LET v == ScanValue(text, i)
  IN IF ~v.ok THEN ScanFail
     ELSE IF IsAt(text, v.next, Punct("]"))
          THEN Scanned(JArr(Append(elements, v.val)), v.next + 1)
     ELSE IF IsAt(text, v.next, Punct(","))
          THEN ScanElements(text, v.next + 1, Append(elements, v.val))
     ELSE ScanFail

\* json.loads(raw): [ok, val]; not ok is json.JSONDecodeError (also for extra data
\* after the value)
json_loads(text) ==
  LET v == ScanValue(text, 1)
  IN IF v.ok /\ v.next = Len(text) + 1 THEN [ok |-> TRUE, val |-> v.val]
     ELSE [ok |-> FALSE, val |-> JNull]

(***************************************************************************)
(* Python's operators on a decoded value.  The strings of the model are    *)
(* such that none contains another as a proper substring, and iterating a  *)
(* non-empty string is shown by its first character, which is no key and   *)
(* no object.                                                              *)
(***************************************************************************)
\* key in container: "true", "false", or the exception raised
PyContains(container, key) ==
  CASE container.t = "obj" -> IF HasKey(container, key) THEN "true" ELSE "false"
    [] container.t = "arr" ->
         IF \E i \in DOMAIN container.kids : container.kids[i] = JStr(key)
         THEN "true" ELSE "false"
    [] container.t = "str" -> IF container.s = key THEN "true" ELSE "false"
    [] OTHER -> "TypeError"

\* for x in container: [ok, items]; not ok is TypeError
PyIter(container) ==
  CASE container.t = "arr" -> [ok |-> TRUE, items |-> container.kids]
    [] container.t = "obj" ->
         [ok |-> TRUE, items |-> [i \in DOMAIN container.kids |-> JStr(container.kids[i].s)]]
    [] container.t = "str" ->
         [ok |-> TRUE, items |-> IF container.s = "" THEN <<>> ELSE <<JStr("<char>")>>]
    [] OTHER -> [ok |-> FALSE, items |-> <<>>]

\* hash(x) succeeds
Hashable(v) == v.t \notin {"arr", "obj"}

(***************************************************************************)
(* models.py: AiBoardResponse.model_validate, pydantic's lax mode.         *)
(***************************************************************************)
\* the numbers a numeric literal or numeric string stands for
IntValue(s) ==
  CASE s \in {"0", "0.0"} -> 0
    [] s \in {"1", "1.0"} -> 1
    [] s \in {"2", "2.0"} -> 2
    [] OTHER -> -1

\* int: an integer, a float without fraction, a numeric string, a bool
ValidInt(v) ==
  \/ v.t \in {"num", "str"} /\ IntValue(v.s) >= 0
  \/ v.t = "bool"

AsInt(v) == IF v.t = "bool" THEN (IF v.s = "true" THEN 1 ELSE 0) ELSE IntValue(v.s)

\* str: only a string
ValidStr(obj, key) == HasKey(obj, key) /\ Get(obj, key).t = "str"

ValidCardPayload(v) ==
  v.t = "obj" /\ ValidStr(v, "id") /\ ValidStr(v, "title") /\ ValidStr(v, "details")

AsCardPayload(v) ==
  [id |-> Get(v, "id").s, title |-> Get(v, "title").s, details |-> Get(v, "details").s]

ValidColumnPayload(v) ==
  /\ v.t = "obj" /\ ValidStr(v, "id") /\ ValidStr(v, "title")
  /\ HasKey(v, "cardIds") /\ Get(v, "cardIds").t = "arr"
  /\ Len(Get(v, "cardIds").kids) <= 500
  /\ \A i \in DOMAIN Get(v, "cardIds").kids : Get(v, "cardIds").kids[i].t = "str"

AsColumnPayload(v) ==
  [id |-> Get(v, "id").s, title |-> Get(v, "title").s,
   cardIds |-> [i \in DOMAIN Get(v, "cardIds").kids |-> Get(v, "cardIds").kids[i].s]]

ValidBoardPayload(v) ==
  /\ v.t = "obj" /\ HasKey(v, "columns") /\ HasKey(v, "cards")
  /\ Get(v, "columns").t = "arr" /\ Len(Get(v, "columns").kids) <= 20
  /\ \A i \in DOMAIN Get(v, "columns").kids : ValidColumnPayload(Get(v, "columns").kids[i])
  /\ Get(v, "cards").t = "obj" /\ Len(Get(v, "cards").kids) <= 500
  /\ \A i \in DOMAIN Get(v, "cards").kids : ValidCardPayload(Get(v, "cards").kids[i].kids[1])

AsBoardPayload(v) ==
  [columns |-> [i \in DOMAIN Get(v, "columns").kids |->
                  AsColumnPayload(Get(v, "columns").kids[i])],
   cards |-> [key \in {Get(v, "cards").kids[i].s : i \in DOMAIN Get(v, "cards").kids} |->
                AsCardPayload(Get(Get(v, "cards"), key))]]

\* AliasChoices: the first alias the object has, "" when it has none
RECURSIVE AliasChoice(_, _)
AliasChoice(v, aliases) ==
  IF aliases = <<>> THEN ""
  ELSE IF HasKey(v, Head(aliases)) THEN Head(aliases)
  ELSE AliasChoice(v, Tail(aliases))

CardIdAliases == <<"cardId", "card_id">>

\* a move_card model that knows its column under one name only
ColumnIdOnly == <<"columnId">>

ColumnIdAliases == <<"columnId", "toColumnId", "targetColumnId", "column_id", "to_column_id">>

OperationTypes == {"create_card", "update_card", "move_card", "delete_card", "rename_column"}

NoCard == [id |-> "", title |-> "", details |-> ""]

NoPosition == -1

\* one shape for the five operation models: fields a model lacks are blank
Operation(type, cardId, columnId, title, details, position, card) ==
  [type |-> type, cardId |-> cardId, columnId |-> columnId, title |-> title,
   details |-> details, position |-> position, card |-> card]

ValidOperation(v) ==
  /\ v.t = "obj" /\ ValidStr(v, "type")
  /\ LET type == Get(v, "type").s
     IN CASE type = "create_card" ->
               /\ HasKey(v, "card") /\ ValidCardPayload(Get(v, "card"))
               /\ ValidStr(v, "columnId")
               /\ HasKey(v, "position") /\ ValidInt(Get(v, "position"))
          [] type = "update_card" ->
               ValidStr(v, "cardId") /\ ValidStr(v, "title") /\ ValidStr(v, "details")
          [] type = "move_card" ->
               /\ AliasChoice(v, CardIdAliases) # ""
               /\ ValidStr(v, AliasChoice(v, CardIdAliases))
               /\ AliasChoice(v, ColumnIdAliases) # ""
               /\ ValidStr(v, AliasChoice(v, ColumnIdAliases))
               /\ HasKey(v, "position") =>
                    (Get(v, "position").t = "null" \/ ValidInt(Get(v, "position")))
          [] type = "delete_card" -> ValidStr(v, "cardId")
          [] type = "rename_column" -> ValidStr(v, "columnId") /\ ValidStr(v, "title")
          [] OTHER -> FALSE

AsOperation(v) ==
  LET type == Get(v, "type").s
  IN CASE type = "create_card" ->
            Operation(type, "", Get(v, "columnId").s, "", "", AsInt(Get(v, "position")),
                      AsCardPayload(Get(v, "card")))
       [] type = "update_card" ->
            Operation(type, Get(v, "cardId").s, "", Get(v, "title").s, Get(v, "details").s,
                      NoPosition, NoCard)
       [] type = "move_card" ->
            Operation(type, Get(v, AliasChoice(v, CardIdAliases)).s,
                      Get(v, AliasChoice(v, ColumnIdAliases)).s, "", "",
                      IF HasKey(v, "position") /\ Get(v, "position").t # "null"
                      THEN AsInt(Get(v, "position")) ELSE NoPosition,
                      NoCard)
       [] type = "delete_card" ->
            Operation(type, Get(v, "cardId").s, "", "", "", NoPosition, NoCard)
       [] OTHER ->
            Operation(type, "", Get(v, "columnId").s, Get(v, "title").s, "", NoPosition, NoCard)

ValidAiBoardResponse(v) ==
  /\ v.t = "obj"
  /\ HasKey(v, "schemaVersion") /\ ValidInt(Get(v, "schemaVersion"))
  /\ HasKey(v, "board") /\ ValidBoardPayload(Get(v, "board"))
  /\ HasKey(v, "operations") /\ Get(v, "operations").t = "arr"
  /\ \A i \in DOMAIN Get(v, "operations").kids : ValidOperation(Get(v, "operations").kids[i])
  /\ HasKey(v, "assistantMessage") => Get(v, "assistantMessage").t \in {"str", "null"}

AiBoardResponse(v) ==
  [schemaVersion |-> AsInt(Get(v, "schemaVersion")),
   board |-> AsBoardPayload(Get(v, "board")),
   operations |-> [i \in DOMAIN Get(v, "operations").kids |->
                     AsOperation(Get(v, "operations").kids[i])],
   assistantMessage |-> IF HasKey(v, "assistantMessage") /\ Get(v, "assistantMessage").t = "str"
                        THEN [present |-> TRUE, text |-> Get(v, "assistantMessage").s]
                        ELSE NoMessage]

(***************************************************************************)
(* ai.py: parse_ai_board_response.                                         *)
(***************************************************************************)
\* a loop over cards.items() that does not compare an entry's id with its key
CardsLoopAnyId(cards) ==
  \A i \in DOMAIN cards.kids :
    cards.kids[i].kids[1].t = "obj" /\ HasKey(cards.kids[i].kids[1], "id")

\* for card_id, card_data in cards.items(): TRUE when no entry is refused
CardsLoop(cards) ==
  \A i \in DOMAIN cards.kids :
    LET card_id == cards.kids[i].s
        card_data == cards.kids[i].kids[1]
    IN /\ card_data.t = "obj"
       /\ HasKey(card_data, "id")
       /\ Get(card_data, "id") = JStr(card_id)

\* for ref_id in column.get("cardIds", []): "", or the exception raised
RECURSIVE RefsLoop(_, _, _)
RefsLoop(refs, i, cards) ==
  IF i > Len(refs) THEN ""
  ELSE IF ~Hashable(refs[i]) THEN "TypeError"
  ELSE IF ~(refs[i].t = "str" /\ HasKey(cards, refs[i].s)) THEN "HTTPException"
  ELSE RefsLoop(refs, i + 1, cards)

\* for column in board_data["columns"]: "", or the exception raised
RECURSIVE ColumnsLoop(_, _, _)
ColumnsLoop(columns, i, cards) ==
  IF i > Len(columns) THEN ""
  ELSE IF columns[i].t # "obj" THEN "AttributeError"
  ELSE LET refs == PyIter(IF HasKey(columns[i], "cardIds")
                          THEN Get(columns[i], "cardIds") ELSE JArr(<<>>))
           raised == IF refs.ok THEN RefsLoop(refs.items, 1, cards) ELSE "TypeError"
       IN IF raised # "" THEN raised ELSE ColumnsLoop(columns, i + 1, cards)

\* from cards = board_data["cards"] on
ParseBoardData(data, board_data) ==
  LET cards == Get(board_data, "cards")
      columns == PyIter(Get(board_data, "columns"))
      raised == IF columns.ok THEN ColumnsLoop(columns.items, 1, cards) ELSE "TypeError"
  IN IF cards.t # "obj" THEN ParseUncaught("AttributeError")
     ELSE IF ~CardsLoop(cards) THEN BadGateway("openrouter_invalid_schema")
     ELSE IF raised = "HTTPException" THEN BadGateway("openrouter_invalid_schema")
     ELSE IF raised # "" THEN ParseUncaught(raised)
     ELSE IF ~ValidAiBoardResponse(data) THEN BadGateway("openrouter_invalid_schema")
     ELSE IF AiBoardResponse(data).schemaVersion # 1
          THEN BadGateway("openrouter_schema_version_mismatch")
     ELSE Parsed(AiBoardResponse(data))

\* from the decoded data on
ParseData(data) ==
  IF PyContains(data, "board") = "TypeError" THEN ParseUncaught("TypeError")
  ELSE IF PyContains(data, "board") = "false" THEN BadGateway("openrouter_invalid_schema")
  ELSE IF data.t # "obj" THEN ParseUncaught("TypeError")
  ELSE LET board_data == Get(data, "board")
       IN IF PyContains(board_data, "columns") = "TypeError"
          THEN ParseUncaught("TypeError")
          ELSE IF PyContains(board_data, "columns") = "false"
               THEN BadGateway("openrouter_invalid_schema")
          ELSE IF PyContains(board_data, "cards") = "false"
               THEN BadGateway("openrouter_invalid_schema")
          ELSE IF board_data.t # "obj" THEN ParseUncaught("TypeError")
          ELSE ParseBoardData(data, board_data)

parse_ai_board_response(raw) ==
  LET decoded == json_loads(raw)
  IN IF ~decoded.ok THEN BadGateway("openrouter_invalid_json")
     ELSE ParseData(decoded.val)

(***************************************************************************)
(* The replies of the model gateway: what ai.py's system prompt asks for,  *)
(* and what departs from it in one place.                                  *)
(***************************************************************************)
CardJson(card) ==
  JObj(<<JMem("id", JStr(card.id)), JMem("title", JStr(card.title)),
         JMem("details", JStr(card.details))>>)

ColumnJson(column) ==
  JObj(<<JMem("id", JStr(column.id)), JMem("title", JStr(column.title)),
         JMem("cardIds", JArr([i \in DOMAIN column.cardIds |-> JStr(column.cardIds[i])]))>>)

RECURSIVE CardMembers(_, _)
CardMembers(cards, i) ==
  IF i > Len(IdOrder) THEN <<>>
  ELSE (IF IdOrder[i] \in DOMAIN cards
        THEN <<JMem(IdOrder[i], CardJson(cards[IdOrder[i]]))>> ELSE <<>>)
       \o CardMembers(cards, i + 1)

ColumnsJson(columns) == JArr([i \in DOMAIN columns |-> ColumnJson(columns[i])])

CardsJson(cards) == JObj(CardMembers(cards, 1))

\* a member left out of an object
JAbsent == JScalar("absent", "")

Object(members) == JObj(SelectSeq(members, LAMBDA m : m.kids[1] # JAbsent))

BoardObject(columns, cards) == Object(<<JMem("columns", columns), JMem("cards", cards)>>)

BoardJson(board) == BoardObject(ColumnsJson(board.columns), CardsJson(board.cards))

Reply(schemaVersion, board, operations, assistantMessage) ==
  Object(<<JMem("schemaVersion", schemaVersion), JMem("board", board),
           JMem("operations", operations), JMem("assistantMessage", assistantMessage)>>)

BaseCard == [id |-> "card-1", title |-> "Todo", details |-> "B"]

BaseColumn == [id |-> "col-1", title |-> "Todo", cardIds |-> <<"card-1">>]

BaseBoard == [columns |-> <<BaseColumn>>, cards |-> [id \in {"card-1"} |-> BaseCard]]

\* the base column, or the base card, with one member replaced or left out
ColumnWith(key, value) ==
  Object([i \in 1..3 |-> IF ColumnJson(BaseColumn).kids[i].s = key THEN JMem(key, value)
                         ELSE ColumnJson(BaseColumn).kids[i]])

CardWith(key, value) ==
  Object([i \in 1..3 |-> IF CardJson(BaseCard).kids[i].s = key THEN JMem(key, value)
                         ELSE CardJson(BaseCard).kids[i]])

AcceptedVersions == {JNum("1"), JNum("1.0"), JStr("1"), JTrue}

FaultyVersions == {JAbsent, JNull, JNum("2"), JNum("1.5"), JStr("Todo"), JArr(<<>>)}

FaultyBoards ==
  {JAbsent, JNull, JNum("1"), JTrue, JStr("board"), JArr(<<>>), JObj(<<>>),
   JArr(<<JStr("columns"), JStr("cards")>>)}

FaultyCardIds ==
  {JAbsent, JNull, JNum("1"), JStr(""), JStr("card-1"), JObj(<<>>), JArr(<<JNum("1")>>),
   JArr(<<JNull>>), JArr(<<JArr(<<>>)>>), JArr(<<JStr("card-9")>>)}

FaultyColumns ==
  {JAbsent, JNull, JNum("1"), JStr(""), JStr("Todo"), JObj(<<>>), JArr(<<JNum("1")>>),
   JArr(<<JNull>>), JArr(<<JStr("col-1")>>), JArr(<<JArr(<<>>)>>),
   JArr(<<ColumnWith("title", JAbsent)>>), JArr(<<ColumnWith("id", JNum("1"))>>)}
  \cup {JArr(<<ColumnWith("cardIds", v)>>) : v \in FaultyCardIds}

FaultyCardEntries ==
  {JNull, JNum("1"), JStr("card-1"), JArr(<<>>), CardWith("id", JAbsent),
   CardWith("id", JStr("card-9")), CardWith("id", JNum("1")), CardWith("title", JAbsent),
   CardWith("details", JNull)}

FaultyCards ==
  {JAbsent, JNull, JNum("1"), JStr("cards"), JArr(<<>>), JArr(<<JStr("card-1")>>)}
  \cup {JObj(<<JMem("card-1", v)>>) : v \in FaultyCardEntries}

UpdateCardJson ==
  JObj(<<JMem("type", JStr("update_card")), JMem("cardId", JStr("card-1")),
         JMem("title", JStr("Done")), JMem("details", JStr("B"))>>)

MoveCardJson(cardKey, columnKey) ==
  JObj(<<JMem("type", JStr("move_card")), JMem(cardKey, JStr("card-1")),
         JMem(columnKey, JStr("col-1")), JMem("position", JNum("0"))>>)

\* the member names a reply may give a move_card's card and column under
CardKeys == {"cardId", "card_id"}

ColumnKeys == {"columnId", "toColumnId", "targetColumnId", "column_id", "to_column_id"}

GoodOperations ==
  {JArr(<<>>), JArr(<<UpdateCardJson>>)}
  \cup {JArr(<<MoveCardJson(cardKey, columnKey)>>) : cardKey \in CardKeys, columnKey \in ColumnKeys}

FaultyOperations ==
  {JAbsent, JNull, JObj(<<>>), JArr(<<JNum("1")>>),
   JArr(<<JObj(<<JMem("type", JStr("archive_card"))>>)>>),
   JArr(<<JObj(<<JMem("type", JStr("update_card")), JMem("cardId", JStr("card-1"))>>)>>)}

GoodMessages == {JAbsent, JNull, JStr("Done")}

FaultyMessages == {JNum("1"), JArr(<<>>)}

\* decoded replies that are no JSON object
NonObjects ==
  {JNull, JNum("1"), JTrue, JStr("board"), JStr("Todo"), JArr(<<>>), JArr(<<JStr("board")>>)}

ReplyValues ==
  {Reply(JNum("1"), BoardJson(b), JArr(<<>>), JAbsent) : b \in RequestBoards}
  \cup {Reply(v, BoardJson(BaseBoard), o, m) :
          v \in AcceptedVersions, o \in GoodOperations, m \in GoodMessages}
  \cup {Reply(v, BoardJson(BaseBoard), JArr(<<>>), JAbsent) : v \in FaultyVersions}
  \cup {Reply(JNum("1"), b, JArr(<<>>), JAbsent) : b \in FaultyBoards}
  \cup {Reply(JNum("1"), BoardObject(c, CardsJson(BaseBoard.cards)), JArr(<<>>), JAbsent) :
          c \in FaultyColumns}
  \cup {Reply(JNum("1"), BoardObject(ColumnsJson(BaseBoard.columns), c), JArr(<<>>), JAbsent) :
          c \in FaultyCards}
  \cup {Reply(JNum("1"), BoardJson(BaseBoard), o, JAbsent) : o \in FaultyOperations}
  \cup {Reply(JNum("1"), BoardJson(BaseBoard), JArr(<<>>), m) : m \in FaultyMessages}
  \cup NonObjects

Prose == Lexeme("prose", "Here you go:")

\* a reply's text as it is, inside prose, and cut short
TextsOf(v) ==
  {Dumps(v), <<Prose>> \o Dumps(v), Dumps(v) \o <<Prose>>, <<Prose>> \o Dumps(v) \o <<Prose>>,
   SubSeq(Dumps(v), 1, Len(Dumps(v)) - 1)}

Responses ==
  UNION {TextsOf(v) : v \in ReplyValues}
  \cup {<<>>, <<Prose>>, <<Punct("}"), Prose, Punct("{")>>}

(***************************************************************************)
(* SpecParse: parse_ai_board_response on every reply text of the bounds.   *)
(***************************************************************************)
InitParse ==
  /\ InitStore
  /\ sessions = [t \in Tokens |-> 0]
  /\ payload = EmptyBoard
  /\ inputs = NoInputs
  /\ resp = NoResponse
  /\ pc = "request"
  /\ response \in Responses
  /\ parsed = NotParsed
  /\ get = IdleGet
  /\ ai = IdleAi
  /\ history = {}
  /\ NoCalls

ParseResponse ==
  /\ pc = "request"
  /\ parsed' = parse_ai_board_response(response)
  /\ pc' = "responded"
  /\ UNCHANGED <<colRows, cardRows, utc, monotonic, sessions, payload, inputs, resp,
                 response, get, ai, history, ai_request_times, log, gateway, replacing, login_attempts>>

NextParse == ParseResponse

SpecParse == InitParse /\ [][NextParse]_vars

ParseFailures ==
  {"openrouter_invalid_json", "openrouter_invalid_schema", "openrouter_schema_version_mismatch"}

\* C9: whatever the reply text, parse_ai_board_response either returns a value or fails
\* with a 502 whose detail is one of openrouter_invalid_json, openrouter_invalid_schema
\* and openrouter_schema_version_mismatch, never with another error
ParseFailsClosed ==
  pc = "responded" =>
    \/ parsed.raised = ""
    \/ /\ parsed.raised = "HTTPException"
       /\ parsed.status = 502
       /\ parsed.detail \in ParseFailures

\* the text from its first "{" to its last "}", <<>> when there is no such pair
Braces(text, mark) == {i \in DOMAIN text : text[i] = Punct(mark)}

Min(S) == CHOOSE i \in S : \A j \in S : i <= j

Max(S) == CHOOSE i \in S : \A j \in S : i >= j

BraceSubstring(text) ==
  IF Braces(text, "{") = {} \/ Braces(text, "}") = {} THEN <<>>
  ELSE SubSeq(text, Min(Braces(text, "{")), Max(Braces(text, "}")))

\* C10: when the strict decoding of the reply fails, the text from the first "{" to the
\* last "}" is decoded instead and the outcome is that of the enclosed value;
\* openrouter_invalid_json is raised only when there is no such pair or that text does
\* not decode either
BraceRecovery ==
  (pc = "responded" /\ ~json_loads(response).ok) =>
    IF json_loads(BraceSubstring(response)).ok
    THEN parsed = ParseData(json_loads(BraceSubstring(response)).val)
    ELSE parsed = BadGateway("openrouter_invalid_json")

(***************************************************************************)
(* Spec: the server with its requests interleaved.  FastAPI runs these     *)
(* handlers on a thread pool, each with a connection of its own, so a      *)
(* handler is split where another one's transaction can commit: between    *)
(* the two SELECTs of fetch_board, which run outside any transaction, and  *)
(* around the call to the gateway.  A transaction's writes appear at its   *)
(* COMMIT, in one step.                                                    *)
(***************************************************************************)
\* bound: messages of one POST /api/ai/board
MaxMessages == 1

\* the boards the clients and the gateway of this specification send
SmallBoards ==
  {b \in RequestBoards : Len(b.columns) + SumCardIds(b.columns) <= MaxBoardSize - 2}

\* the instants at which time.monotonic() is read
Instants == {0, SESSION_TTL + 1}

Contents == {"Move card-1 to Done", "Give me a SUMMARY"}

\* the characters of the contents of the model
Chars(content) ==
  CASE content = "Move card-1 to Done" ->
         <<"M", "o", "v", "e", " ", "c", "a", "r", "d", "-", "1", " ", "t", "o", " ", "D", "o",
           "n", "e">>
    [] content = "Give me a SUMMARY" ->
         <<"G", "i", "v", "e", " ", "m", "e", " ", "a", " ", "S", "U", "M", "M", "A", "R", "Y">>
    [] content = "Summarize it" ->
         <<"S", "u", "m", "m", "a", "r", "i", "z", "e", " ", "i", "t">>
    [] content = "presummary" -> <<"p", "r", "e", "s", "u", "m", "m", "a", "r", "y">>
    [] content = "Summaries" -> <<"S", "u", "m", "m", "a", "r", "i", "e", "s">>
    [] content = "sum mary" -> <<"s", "u", "m", " ", "m", "a", "r", "y">>
    [] OTHER -> <<>>

\* str.lower(), character by character
LowerChar(c) ==
  CASE c = "A" -> "a" [] c = "D" -> "d" [] c = "G" -> "g" [] c = "M" -> "m"
    [] c = "R" -> "r" [] c = "S" -> "s" [] c = "U" -> "u" [] c = "Y" -> "y"
    [] OTHER -> c

Lower(chars) == [i \in DOMAIN chars |-> LowerChar(chars[i])]

\* needle in chars
Contains(chars, needle) ==
  \E i \in 0..(Len(chars) - Len(needle)) : SubSeq(chars, i + 1, i + Len(needle)) = needle

\* a test that looks at the content as it was typed
MentionsSummaryAsTyped(content) ==
  \/ Contains(Chars(content), <<"s", "u", "m", "m", "a", "r", "i", "z", "e">>)
  \/ Contains(Chars(content), <<"s", "u", "m", "m", "a", "r", "y">>)

\* content.lower() holds "summarize" or "summary"
MentionsSummary(content) ==
  \/ Contains(Lower(Chars(content)), <<"s", "u", "m", "m", "a", "r", "i", "z", "e">>)
  \/ Contains(Lower(Chars(content)), <<"s", "u", "m", "m", "a", "r", "y">>)

ChatMessages == [role : {"user", "assistant"}, content : Contents]

MessageLists == SeqsUpTo(ChatMessages, MaxMessages)

RECURSIVE is_summary_request(_)
is_summary_request(messages) ==
  IF messages = <<>> THEN FALSE
  ELSE IF messages[Len(messages)].role # "user"
       THEN is_summary_request(SubSeq(messages, 1, Len(messages) - 1))
  ELSE MentionsSummary(messages[Len(messages)].content)

\* call_openrouter_messages: the ways it raises, and the contents it returns
GatewayFailures ==
  {[status |-> 500, detail |-> "missing_openrouter_key"],
   [status |-> 500, detail |-> "Internal Server Error"],
   [status |-> 502, detail |-> "upstream_error"],
   [status |-> 502, detail |-> "openrouter_empty_response"]}

GatewayReplies ==
  {Reply(JNum("1"), BoardJson(b), JArr(<<>>), JAbsent) : b \in SmallBoards}
  \cup {Reply(JNum("2"), BoardJson(EmptyBoard), JArr(<<>>), JAbsent),
        Reply(JNum("1"), JNull, JArr(<<>>), JAbsent),
        Reply(JNum("1"), BoardJson(EmptyBoard), JArr(<<UpdateCardJson>>), JStr("Done"))}

GatewayResponses == {Dumps(v) : v \in GatewayReplies} \cup {<<Prose>>}

\* ai_board from the parsed reply on, with its transaction as the store sees it:
\* [status, detail, colRows, cardRows]
AiOutcome(status, detail, cols, cards, writes) ==
  [status |-> status, detail |-> detail, colRows |-> cols, cardRows |-> cards,
   writes |-> writes]

\* a handler that writes what it has before build_board_inputs has accepted it
ai_board_write_unchecked(cols, cards, ai_response, now) ==
  LET built == build_board_inputs(ai_response.value.board)
      txn == replace_board(cols, cards, built.column_inputs, built.card_inputs, now)
      after == ConnectionExit(cols, cards, txn)
  IN IF ai_response.raised # ""
     THEN AiOutcome(ai_response.status, ai_response.detail, cols, cards, 0)
     ELSE IF built.raised # ""
          THEN AiOutcome(built.status, built.detail, after.colRows, after.cardRows, 1)
     ELSE IF ~txn.ok THEN AiOutcome(500, "Internal Server Error", after.colRows, after.cardRows, 1)
     ELSE AiOutcome(200, "", after.colRows, after.cardRows, 1)

ai_board_write(cols, cards, ai_response, now) ==
  LET built == build_board_inputs(ai_response.value.board)
      txn == replace_board(cols, cards, built.column_inputs, built.card_inputs, now)
      after == ConnectionExit(cols, cards, txn)
  IN IF ai_response.raised # ""
     THEN AiOutcome(ai_response.status, ai_response.detail, cols, cards, 0)
     ELSE IF built.raised # "" THEN AiOutcome(built.status, built.detail, cols, cards, 0)
     ELSE IF ~txn.ok THEN AiOutcome(500, "Internal Server Error", after.colRows, after.cardRows, 1)
     ELSE AiOutcome(200, "", after.colRows, after.cardRows, 1)

GetDone(status, board) ==
  [pc |-> "done", status |-> status, columns_rows |-> <<>>, board |-> board]

AiDone(status, detail, board) ==
  [IdleAi EXCEPT !.pc = "done", !.status = status, !.detail = detail, !.board = board]

\* ai_board's return after the transaction: schemaVersion, operations, board
AiReturned(ai_response, updated_board) ==
  [AiDone(200, "", updated_board)
     EXCEPT !.called = TRUE,
            !.schemaVersion = ai_response.value.schemaVersion,
            !.operations = ai_response.value.operations]

\* an answer of ai_board with what the request did on its way: the reads and gateway
\* calls of the request so far, one more gateway call, and the writes of its end.
\* The handler's connections are closed when it returns and its locals are dropped.
Counted(answer, before, writes) ==
  [answer EXCEPT !.reads = before.reads,
                 !.gateway_calls = before.gateway_calls + 1,
                 !.writes = before.writes + writes,
                 !.connections = 0]

\* what the client gets once call_openrouter_messages was entered: the return, or the
\* error of the outcome out
AiAnswer(out, ai_response, updated_board) ==
  IF out.status = 200 THEN AiReturned(ai_response, updated_board)
  ELSE [AiDone(out.status, out.detail, EmptyBoard) EXCEPT !.called = TRUE]

\* sep.join(strings), as the pieces of the joined text
RECURSIVE Join(_, _)
Join(strings, sep) ==
  IF Len(strings) <= 1 THEN strings
  ELSE <<Head(strings), sep>> \o Join(Tail(strings), sep)

\* a preview that shows every title
PreviewAll(titles) == Join(titles, "; ")

\* preview = "; ".join(titles[:3]), with "; ..." after it when there are more
Preview(titles) ==
  IF Len(titles) > 3 THEN Join(SubSeq(titles, 1, 3), "; ") \o <<"; ...">>
  ELSE Join(titles, "; ")

\* build_board_summary: the lines it joins with "\n", each line as the pieces of its
\* f-string
build_board_summary(board) ==
  <<<<"Summary: ", ToString(Len(board.columns)), " columns, ",
      ToString(Cardinality(DOMAIN board.cards)), " cards.">>>>
  \o [i \in DOMAIN board.columns |->
        LET column == board.columns[i]
            found == SelectSeq(column.cardIds, LAMBDA card_id : card_id \in DOMAIN board.cards)
            titles == [j \in DOMAIN found |-> board.cards[found[j]].title]
        IN IF titles = <<>> THEN <<column.title, " (", "0", "): ", "No cards.">>
           ELSE <<column.title, " (", ToString(Len(titles)), "): ">> \o Preview(titles)]

Init ==
  /\ InitStore
  /\ sessions = [t \in {} |-> 0]
  /\ payload = EmptyBoard
  /\ inputs = NoInputs
  /\ resp = NoResponse
  /\ pc = "serving"
  /\ response = <<>>
  /\ parsed = NotParsed
  /\ get = IdleGet
  /\ ai = IdleAi
  /\ history = {fetch_board(colRows, cardRows)}
  /\ NoCalls

\* what no action of this specification touches
fixed == <<utc, payload, inputs, pc, response, parsed, ai_request_times, log, gateway, replacing, login_attempts>>

\* time passes
Elapse ==
  /\ \E now \in Instants : now > monotonic /\ monotonic' = now
  /\ UNCHANGED <<colRows, cardRows, sessions, resp, get, ai, history, fixed>>

\* POST /api/auth/login with the right credentials, under the rate limit
Login ==
  /\ \E token \in Tokens :
       /\ token \notin DOMAIN sessions
       /\ sessions' = create_session(sessions, token, monotonic)
  /\ UNCHANGED <<colRows, cardRows, monotonic, resp, get, ai, history, fixed>>

\* POST /api/auth/logout
Logout ==
  /\ \E cookie \in Cookies :
       /\ cookie \in DOMAIN sessions
       /\ sessions' = invalidate_session(sessions, cookie)
  /\ UNCHANGED <<colRows, cardRows, monotonic, resp, get, ai, history, fixed>>

\* PUT /api/board: the transaction is the handler's only access to the store
Put ==
  /\ \E cookie \in Cookies, board \in SmallBoards :
       \E auth \in {is_authenticated(sessions, cookie, monotonic)} :
         /\ sessions' = auth.sessions
         /\ IF ~auth.ok
            THEN /\ resp' = Response(Unauthorized.status, Unauthorized.detail, EmptyBoard)
                 /\ UNCHANGED <<colRows, cardRows, history>>
            ELSE \E out \in {update_board(colRows, cardRows, board, utc)} :
                   /\ resp' = out.resp
                   /\ colRows' = out.colRows
                   /\ cardRows' = out.cardRows
                   /\ history' = history \cup {fetch_board(out.colRows, out.cardRows)}
  /\ UNCHANGED <<monotonic, get, ai, fixed>>

\* GET /api/board: require_auth and the first SELECT of fetch_board
GetColumns ==
  /\ get.pc \in {"idle", "done"}
  /\ \E cookie \in Cookies :
       LET auth == is_authenticated(sessions, cookie, monotonic)
       IN /\ sessions' = auth.sessions
          /\ get' = IF ~auth.ok THEN GetDone(Unauthorized.status, EmptyBoard)
                    ELSE [pc |-> "columns", status |-> 0,
                          columns_rows |-> SelectColumns(colRows), board |-> EmptyBoard]
  /\ UNCHANGED <<colRows, cardRows, monotonic, resp, ai, history, fixed>>

\* GET /api/board: the second SELECT, and the board built from the two results
GetCards ==
  /\ get.pc = "columns"
  /\ get' = GetDone(200, AssembleBoard(get.columns_rows, SelectCards(cardRows)))
  /\ UNCHANGED <<colRows, cardRows, monotonic, sessions, resp, ai, history, fixed>>

\* POST /api/ai/board up to the first SELECT of its fetch_board.  The request times
\* _check_rate_limit keeps are not followed here: it may refuse or let pass.
AiStart ==
  /\ ai.pc \in {"idle", "done"}
  /\ \E cookie \in Cookies, messages \in MessageLists, limited \in BOOLEAN :
       LET auth == is_authenticated(sessions, cookie, monotonic)
       IN /\ sessions' = auth.sessions
          /\ ai' = IF ~auth.ok THEN AiDone(Unauthorized.status, Unauthorized.detail, EmptyBoard)
                   ELSE IF messages = <<>> THEN AiDone(400, "missing_messages", EmptyBoard)
                   ELSE IF limited
                        THEN [AiDone(429, "rate_limit_exceeded", EmptyBoard)
                                EXCEPT !.summary = is_summary_request(messages)]
                   ELSE [IdleAi EXCEPT !.pc = "columns",
                                       !.summary = is_summary_request(messages),
                                       !.columns_rows = SelectColumns(colRows),
                                       !.reads = 1,
                                       !.connections = 1]
  /\ UNCHANGED <<colRows, cardRows, monotonic, resp, get, history, fixed>>

\* the second SELECT and the end of the `with` block, which commits and leaves the
\* connection open; a summary request is answered from the board just read
AiCards ==
  /\ ai.pc = "columns"
  /\ LET board == AssembleBoard(ai.columns_rows, SelectCards(cardRows))
     IN ai' = IF ai.summary
              THEN [AiDone(200, "", board)
                      EXCEPT !.summary = TRUE, !.schemaVersion = 1,
                              !.assistantMessage = build_board_summary(board),
                              !.reads = ai.reads]
              ELSE [ai EXCEPT !.pc = "gateway", !.columns_rows = <<>>, !.board = board]
  /\ UNCHANGED <<colRows, cardRows, monotonic, sessions, resp, get, history, fixed>>

\* call_openrouter_messages raises
AiGatewayFails ==
  /\ ai.pc = "gateway"
  /\ \E failure \in GatewayFailures :
       ai' = Counted([AiDone(failure.status, failure.detail, EmptyBoard)
                        EXCEPT !.called = TRUE], ai, 0)
  /\ UNCHANGED <<colRows, cardRows, monotonic, sessions, resp, get, history, fixed>>

\* call_openrouter_messages returns text: parse, build, and the transaction
AiApplyReply(text) ==
  \E ai_response \in {parse_ai_board_response(text)} :
    \E out \in {ai_board_write(colRows, cardRows, ai_response, utc)} :
      \E updated_board \in {fetch_board(out.colRows, out.cardRows)} :
        /\ colRows' = out.colRows
        /\ cardRows' = out.cardRows
        /\ ai' = Counted(AiAnswer(out, ai_response, updated_board), ai, out.writes)
        /\ history' = history \cup {updated_board}

AiApply ==
  /\ ai.pc = "gateway"
  /\ \E text \in GatewayResponses : AiApplyReply(text)
  /\ UNCHANGED <<monotonic, sessions, resp, get, fixed>>

Next ==
  \/ Elapse
  \/ Login
  \/ Logout
  \/ Put
  \/ GetColumns
  \/ GetCards
  \/ AiStart
  \/ AiCards
  \/ AiGatewayFails
  \/ AiApply

Spec == Init /\ [][Next]_vars

(***************************************************************************)
(* C1, C7, C8: the stored board under Spec.                                *)
(***************************************************************************)
\* C1: whatever PUT /api/board and POST /api/ai/board requests have run, the stored
\* board has referential integrity: every cardId of a column is a key of cards, and
\* every card is referenced by exactly one column, once.
PersistedIntegrity == ReferentialIntegrity(fetch_board(colRows, cardRows))

\* a PUT and an AI request have both replaced the board
BothWrote ==
  /\ resp.status = 200
  /\ ai.pc = "done" /\ ai.status = 200 /\ ai.board = EmptyBoard
  /\ colRows = <<>>

\* C7: the board a GET /api/board returns is one that a transaction committed (or the
\* seed): it never mixes rows of the board before a replace with rows of the board after
GetSeesCommittedBoard == (get.pc = "done" /\ get.status = 200) => get.board \in history

\* C8: a POST /api/ai/board that ends in an error leaves the stored board as it was
AiFailureKeepsBoard ==
  [][(ai' # ai /\ ai'.pc = "done" /\ ai'.status # 200)
       => (colRows' = colRows /\ cardRows' = cardRows)]_vars

\* the reply parsed but build_board_inputs refused its board, and the seed is still stored
AiRefusedAfterParse ==
  /\ ai.pc = "done" /\ ai.status = 400 /\ ai.detail = "invalid_board"
  /\ StoreIsSeed

\* C15: an authenticated POST /api/ai/board whose latest user message mentions a
\* summary, once past the rate limit, returns 200 with the stored board, no
\* operations and an assistantMessage that starts with "Summary:", and the gateway is
\* not called during it
SummaryShortcut ==
  (ai.pc = "done" /\ ai.summary /\ ai.status \notin {401, 429}) =>
    /\ ai.status = 200
    /\ ai.board \in history
    /\ ai.operations = <<>>
    /\ ai.assistantMessage # <<>> /\ ai.assistantMessage[1][1] = "Summary: "
    /\ ~ai.called

(***************************************************************************)
(* C11, C12, C14: the reply parser under SpecParse.                        *)
(***************************************************************************)
\* the decoded reply, when the text decodes
Decoded == json_loads(response).val

\* a reply that is accepted once its schemaVersion member is the number 1
ValidButForVersion(data) ==
  /\ data.t = "obj"
  /\ HasKey(data, "schemaVersion")
  /\ ParseData(JObj(DictSet(data.kids, "schemaVersion", JNum("1")))).raised = ""

\* C11: a reply whose schemaVersion is anything but the integer 1 is refused with
\* 502 openrouter_schema_version_mismatch: no other value is taken for version 1
VersionMismatch ==
  (/\ pc = "responded"
   /\ json_loads(response).ok
   /\ ValidButForVersion(Decoded)
   /\ Get(Decoded, "schemaVersion") # JNum("1"))
  => parsed = BadGateway("openrouter_schema_version_mismatch")

\* the reply has a board whose cards is an object with an entry that is no object, has
\* no id, or has an id other than its key
HasBadCardEntry(data) ==
  /\ data.t = "obj" /\ HasKey(data, "board")
  /\ Get(data, "board").t = "obj" /\ HasKey(Get(data, "board"), "cards")
  /\ Get(Get(data, "board"), "cards").t = "obj"
  /\ \E i \in DOMAIN Get(Get(data, "board"), "cards").kids :
       LET key == Get(Get(data, "board"), "cards").kids[i].s
           entry == Get(Get(data, "board"), "cards").kids[i].kids[1]
       IN \/ entry.t # "obj"
          \/ ~HasKey(entry, "id")
          \/ Get(entry, "id") # JStr(key)

\* C12: a reply with a cards entry that is no object, lacks id, or whose id differs
\* from its key fails with 502 openrouter_invalid_schema; so every AiBoardResponse
\* returned has card.id equal to its key, for every card
CardKeysChecked ==
  pc = "responded" =>
    /\ (json_loads(response).ok /\ HasBadCardEntry(Decoded))
         => parsed = BadGateway("openrouter_invalid_schema")
    /\ parsed.raised = "" =>
         \A key \in DOMAIN parsed.value.board.cards : parsed.value.board.cards[key].id = key

\* a reply whose only fault is a card stored under another card's id was refused
MismatchedCardRefused ==
  /\ pc = "responded"
  /\ response = Dumps(Reply(JNum("1"),
                            BoardObject(ColumnsJson(BaseBoard.columns),
                                        JObj(<<JMem("card-1", CardWith("id", JStr("card-9")))>>)),
                            JArr(<<>>), JAbsent))
  /\ parsed = BadGateway("openrouter_invalid_schema")

MoveCardReply(cardKey, columnKey) ==
  Dumps(Reply(JNum("1"), BoardJson(BaseBoard), JArr(<<MoveCardJson(cardKey, columnKey)>>),
              JAbsent))

\* C14: a move_card whose column comes under toColumnId, targetColumnId, column_id or
\* to_column_id is accepted and parses to the operation the same reply gives under
\* columnId, with the same columnId value
MoveCardAliases ==
  pc = "responded" =>
    \A cardKey \in CardKeys, columnKey \in ColumnKeys \ {"columnId"} :
      response = MoveCardReply(cardKey, columnKey) =>
        /\ parsed.raised = ""
        /\ parsed = parse_ai_board_response(MoveCardReply(cardKey, "columnId"))
        /\ parsed.value.operations =
             <<Operation("move_card", "card-1", "col-1", "", "", 0, NoCard)>>

\* a reply with a move_card under toColumnId was accepted
ToColumnIdAccepted ==
  /\ pc = "responded"
  /\ response = MoveCardReply("cardId", "toColumnId")
  /\ parsed.raised = ""
  /\ parsed.value.operations[1].columnId = "col-1"

(***************************************************************************)
(* SpecBoth: one board submitted by PUT /api/board and then arriving as    *)
(* the board of a reply to POST /api/ai/board that is valid in every other *)
(* member, for every board payload of the bounds.                          *)
(***************************************************************************)
\* the reply the gateway returns: version 1, the board, no operations
ReplyWithBoard(board) == Dumps(Reply(JNum("1"), BoardJson(board), JArr(<<>>), JAbsent))

\* ai_board for a request that is no summary request, whose gateway call returns the
\* reply with the payload as its board
AiBoardReply ==
  /\ pc = "responded"
  /\ \E auth \in {is_authenticated(sessions, "token-1", monotonic)} :
     \E ai_response \in {parse_ai_board_response(ReplyWithBoard(payload))} :
     \E out \in {ai_board_write(colRows, cardRows, ai_response, utc)} :
       /\ sessions' = auth.sessions
       /\ IF ~auth.ok
          THEN /\ ai' = AiDone(Unauthorized.status, Unauthorized.detail, EmptyBoard)
               /\ UNCHANGED <<colRows, cardRows, response, parsed>>
          ELSE /\ response' = ReplyWithBoard(payload)
               /\ parsed' = ai_response
               /\ colRows' = out.colRows
               /\ cardRows' = out.cardRows
               /\ ai' = AiAnswer(out, ai_response, fetch_board(out.colRows, out.cardRows))
  /\ pc' = "replied"
  /\ UNCHANGED <<utc, monotonic, payload, inputs, resp, get, history,
                 ai_request_times, log, gateway, replacing, login_attempts>>

NextBoth == PutBoard \/ AiBoardReply \/ (pc = "request" /\ Tick)

SpecBoth == InitPut /\ [][NextBoth]_vars

\* C13: a board is accepted and persisted when submitted by PUT /api/board if and
\* only if it is accepted and persisted when it arrives as the board of an otherwise
\* valid reply to POST /api/ai/board
\* (both answer 200 or neither does, and when they do both have stored the same board)
SameValidity ==
  pc = "replied" =>
    /\ (resp.status = 200) <=> (ai.status = 200)
    /\ resp.status = 200 => (resp.board = ai.board /\ ai.board = fetch_board(colRows, cardRows))

\* a board went through both handlers and both stored it
AcceptedByBoth ==
  /\ pc = "replied"
  /\ resp.status = 200
  /\ ai.status = 200
  /\ fetch_board(colRows, cardRows) = payload

(***************************************************************************)
(* SpecRate: POST /api/ai/board calls of two sessions under the rate       *)
(* limit of routes/ai.py, after one session has made all but one of the    *)
(* calls a window allows.  Every request is logged with its answer:        *)
(* [op, cookie, now, authenticated, status], authenticated being what      *)
(* is_authenticated said of the cookie (FALSE where it is not asked).      *)
(***************************************************************************)
AI_RATE_LIMIT == 20

window == 60

\* bound: requests made after the initial state
MaxRequests == 4

TwoTokens == {"token-1", "token-2"}

\* the instants at which the calls are made
RateInstants == {0, window - 1, window, 2 * window - 1, 2 * window}

Logged(op, cookie, now, authenticated, status) ==
  [op |-> op, cookie |-> cookie, now |-> now, authenticated |-> authenticated,
   status |-> status]

\* a limiter that keeps a call for the whole of the window's last second
check_rate_limit_late(store, session_token, now) ==
  LET times == IF session_token \in DOMAIN store THEN store[session_token] ELSE <<>>
      kept == SelectSeq(times, LAMBDA t : now - t <= window)
  IN IF Len(kept) >= AI_RATE_LIMIT THEN [ok |-> FALSE, ai_request_times |-> store]
     ELSE [ok |-> TRUE,
           ai_request_times |->
             [t \in DOMAIN store \cup {session_token} |->
                IF t = session_token THEN Append(kept, now) ELSE store[t]]]

\* a limiter that admits a call without keeping its time
check_rate_limit_unrecorded(store, session_token, now) ==
  LET times == IF session_token \in DOMAIN store THEN store[session_token] ELSE <<>>
      kept == SelectSeq(times, LAMBDA t : now - t < window)
  IN [ok |-> Len(kept) < AI_RATE_LIMIT, ai_request_times |-> store]

\* _check_rate_limit: [ok, ai_request_times]; ok is FALSE when it raises 429
check_rate_limit(store, session_token, now) ==
  LET times == IF session_token \in DOMAIN store THEN store[session_token] ELSE <<>>
      kept == SelectSeq(times, LAMBDA t : now - t < window)
  IN IF Len(kept) >= AI_RATE_LIMIT THEN [ok |-> FALSE, ai_request_times |-> store]
     ELSE [ok |-> TRUE,
           ai_request_times |->
             [t \in DOMAIN store \cup {session_token} |->
                IF t = session_token THEN Append(kept, now) ELSE store[t]]]

RateLimited == [status |-> 429, detail |-> "rate_limit_exceeded"]

\* token-1 has made AI_RATE_LIMIT - 1 calls at time 0, all admitted
InitRate ==
  /\ InitStore
  /\ sessions = [t \in TwoTokens |-> 0]
  /\ payload = EmptyBoard
  /\ inputs = NoInputs
  /\ resp = NoResponse
  /\ pc = "serving"
  /\ response = <<>>
  /\ parsed = NotParsed
  /\ get = IdleGet
  /\ ai = IdleAi
  /\ history = {}
  /\ ai_request_times = [t \in {"token-1"} |-> [i \in 1..(AI_RATE_LIMIT - 1) |-> 0]]
  /\ log = [i \in 1..(AI_RATE_LIMIT - 1) |-> Logged("ai", "token-1", 0, TRUE, 200)]
  /\ gateway = <<>>
  /\ replacing = <<>>
  /\ login_attempts = <<>>

RateElapse ==
  /\ \E now \in RateInstants : now > monotonic /\ monotonic' = now
  /\ UNCHANGED <<colRows, cardRows, utc, sessions, payload, inputs, resp, pc, response,
                 parsed, get, ai, history, ai_request_times, log, gateway, replacing, login_attempts>>

\* POST /api/ai/board asking for a summary
AiSummary ==
  /\ Len(log) < AI_RATE_LIMIT - 1 + MaxRequests
  /\ \E cookie \in TwoTokens :
     \E auth \in {is_authenticated(sessions, cookie, monotonic)} :
     \E limit \in {check_rate_limit(ai_request_times, cookie, monotonic)} :
     \E board \in {fetch_board(colRows, cardRows)} :
       /\ sessions' = auth.sessions
       /\ IF ~auth.ok
          THEN /\ ai' = AiDone(Unauthorized.status, Unauthorized.detail, EmptyBoard)
               /\ UNCHANGED ai_request_times
          ELSE /\ ai_request_times' = limit.ai_request_times
               /\ ai' = IF ~limit.ok
                        THEN [AiDone(RateLimited.status, RateLimited.detail, EmptyBoard)
                                EXCEPT !.summary = TRUE]
                        ELSE [AiDone(200, "", board)
                                EXCEPT !.summary = TRUE, !.schemaVersion = 1,
                                       !.assistantMessage = build_board_summary(board)]
       /\ log' = Append(log, Logged("ai", cookie, monotonic, auth.ok, ai'.status))
  /\ UNCHANGED <<colRows, cardRows, utc, monotonic, payload, inputs, resp, pc, response,
                 parsed, get, history, gateway, replacing, login_attempts>>

NextRate == RateElapse \/ AiSummary

SpecRate == InitRate /\ [][NextRate]_vars

\* the earlier calls of the session of call i that were admitted less than a window
\* before it
AdmittedInWindow(i) ==
  {j \in 1..(i - 1) : /\ log[j].op = "ai"
                      /\ log[j].cookie = log[i].cookie
                      /\ log[j].status = 200
                      /\ log[i].now - log[j].now < 60}

\* C16: a POST /api/ai/board call fails with 429 exactly when its session has had 20
\* calls admitted in the 60 seconds before it, and is admitted otherwise: the first 20
\* calls in a window pass, the next fails, and once the admitted calls are a window old
\* a call passes again, whatever calls were rejected meanwhile
RateLimitWindow ==
  \A i \in DOMAIN log :
    log[i].op = "ai" =>
      IF Cardinality(AdmittedInWindow(i)) >= 20 THEN log[i].status = 429
      ELSE log[i].status = 200

\* a session was refused a call and, a window after its admitted calls, served again
RefusedThenServed ==
  \E i, j \in DOMAIN log :
    /\ i < j
    /\ log[i].cookie = log[j].cookie
    /\ log[i].status = 429
    /\ log[j].status = 200

(***************************************************************************)
(* SpecAuth: logins, logouts and uses of the tokens of two sessions, as    *)
(* time passes.  A use is GET /api/auth/status or GET /api/board.          *)
(***************************************************************************)
\* the instants at which requests are made
AuthInstants == {0, SESSION_TTL - 1, SESSION_TTL, SESSION_TTL + 1, 2 * SESSION_TTL}

\* the tokens create_session has issued so far: secrets.token_hex(32) repeats none
Issued == {log[i].cookie : i \in {j \in DOMAIN log : log[j].op = "login"}}

\* one session has logged in at time 0
InitAuth ==
  /\ InitStore
  /\ sessions = create_session(<<>>, "token-2", 0)
  /\ payload = EmptyBoard
  /\ inputs = NoInputs
  /\ resp = NoResponse
  /\ pc = "serving"
  /\ response = <<>>
  /\ parsed = NotParsed
  /\ get = IdleGet
  /\ ai = IdleAi
  /\ history = {}
  /\ ai_request_times = <<>>
  /\ log = <<Logged("login", "token-2", 0, FALSE, 200)>>
  /\ gateway = <<>>
  /\ replacing = <<>>
  /\ login_attempts = <<>>

\* what no request of this specification touches
idle == <<colRows, cardRows, utc, payload, inputs, resp, pc, response, parsed, ai, history,
          ai_request_times, gateway, replacing, login_attempts>>

AuthElapse ==
  /\ \E now \in AuthInstants : now > monotonic /\ monotonic' = now
  /\ UNCHANGED <<sessions, get, log, idle>>

\* POST /api/auth/login with the right credentials, under its rate limit
AuthLogin ==
  /\ Len(log) < 1 + MaxRequests
  /\ \E token \in TwoTokens \ Issued :
       /\ sessions' = create_session(sessions, token, monotonic)
       /\ log' = Append(log, Logged("login", token, monotonic, FALSE, 200))
  /\ UNCHANGED <<monotonic, get, idle>>

\* POST /api/auth/logout
AuthLogout ==
  /\ Len(log) < 1 + MaxRequests
  /\ \E cookie \in Issued :
       /\ sessions' = invalidate_session(sessions, cookie)
       /\ log' = Append(log, Logged("logout", cookie, monotonic, FALSE, 200))
  /\ UNCHANGED <<monotonic, get, idle>>

\* GET /api/auth/status
AuthStatus ==
  /\ Len(log) < 1 + MaxRequests
  /\ \E cookie \in Issued :
     \E auth \in {is_authenticated(sessions, cookie, monotonic)} :
       /\ sessions' = auth.sessions
       /\ log' = Append(log, Logged("status", cookie, monotonic, auth.ok, 200))
  /\ UNCHANGED <<monotonic, get, idle>>

\* GET /api/board
AuthGetBoard ==
  /\ Len(log) < 1 + MaxRequests
  /\ \E cookie \in Issued :
     \E auth \in {is_authenticated(sessions, cookie, monotonic)} :
       /\ sessions' = auth.sessions
       /\ get' = IF auth.ok THEN GetDone(200, fetch_board(colRows, cardRows))
                 ELSE GetDone(Unauthorized.status, EmptyBoard)
       /\ log' = Append(log, Logged("get", cookie, monotonic, auth.ok, get'.status))
  /\ UNCHANGED <<monotonic, idle>>

NextAuth == AuthElapse \/ AuthLogin \/ AuthLogout \/ AuthStatus \/ AuthGetBoard

SpecAuth == InitAuth /\ [][NextAuth]_vars

Uses == {i \in DOMAIN log : log[i].op \in {"status", "get"}}

\* the requests before request i that carried (or, for a login, issued) its token
Before(i) == {j \in 1..(i - 1) : log[j].cookie = log[i].cookie}

\* the last of them
Previous(i) == CHOOSE j \in Before(i) : \A k \in Before(i) : k <= j

\* C17: a token is accepted as long as each use comes less than 24 hours after the
\* use before it (or after the login), and refused once more than 24 hours have passed
\* since then
InactivityExpiry ==
  \A i \in Uses :
    (Before(i) # {} /\ (log[Previous(i)].op = "login" \/ log[Previous(i)].authenticated)) =>
      /\ log[i].now - log[Previous(i)].now < SESSION_TTL => log[i].authenticated
      /\ log[i].now - log[Previous(i)].now > SESSION_TTL => ~log[i].authenticated

Logins(i) == {j \in Before(i) : log[j].op = "login"}

Logouts(i) == {j \in Before(i) : log[j].op = "logout"}

\* C18: a token is authenticated after its login; after a logout with it every later
\* request with it is unauthenticated (status says false, GET /api/board answers 401);
\* a token that was not logged out is authenticated whatever logouts the other
\* session made, within 24 hours of its login
LogoutEndsSession ==
  \A i \in Uses :
    /\ Logouts(i) # {} =>
         (~log[i].authenticated /\ (log[i].op = "get" => log[i].status = 401))
    /\ (Logouts(i) = {} /\ \E j \in Logins(i) : log[i].now - log[j].now < SESSION_TTL) =>
         (log[i].authenticated /\ (log[i].op = "get" => log[i].status = 200))

\* a token was issued, then logged out and refused, and the other session's token was
\* accepted after that logout
LoggedOutAndRefused ==
  \E i, j, k, l \in DOMAIN log :
    /\ i < j /\ j < k /\ j < l
    /\ log[i].op = "login"
    /\ log[j].op = "logout" /\ log[j].cookie = log[i].cookie
    /\ log[k].op = "get" /\ log[k].cookie = log[i].cookie /\ log[k].status = 401
    /\ log[l].op = "status" /\ log[l].cookie # log[i].cookie /\ log[l].authenticated

(***************************************************************************)
(* SpecGuard: the three protected endpoints, each request handled from     *)
(* start to end, with every cookie a client may send: the token of the     *)
(* session logged in at time 0 (expired once SESSION_TTL has passed), a    *)
(* made-up one, and none.                                                  *)
(***************************************************************************)
\* bound: requests of this specification
MaxGuarded == 2

InitGuard ==
  /\ InitStore
  /\ sessions = create_session(<<>>, "token-1", 0)
  /\ payload = EmptyBoard
  /\ inputs = NoInputs
  /\ resp = NoResponse
  /\ pc = "serving"
  /\ NoOthers

GuardElapse ==
  /\ \E now \in Instants : now > monotonic /\ monotonic' = now
  /\ UNCHANGED <<colRows, cardRows, utc, sessions, payload, inputs, resp, pc, others>>

\* GET /api/board
GuardGet ==
  /\ Len(log) < MaxGuarded
  /\ \E cookie \in Cookies :
     \E auth \in {is_authenticated(sessions, cookie, monotonic)} :
       /\ sessions' = auth.sessions
       /\ get' = IF auth.ok THEN GetDone(200, fetch_board(colRows, cardRows))
                 ELSE GetDone(Unauthorized.status, EmptyBoard)
       /\ log' = Append(log, Logged("get", cookie, monotonic, auth.ok, get'.status))
  /\ UNCHANGED <<colRows, cardRows, utc, monotonic, payload, inputs, resp, pc, response,
                 parsed, ai, history, ai_request_times, gateway, replacing, login_attempts>>

\* PUT /api/board
GuardPut ==
  /\ Len(log) < MaxGuarded
  /\ \E cookie \in Cookies, board \in SmallBoards :
     \E auth \in {is_authenticated(sessions, cookie, monotonic)} :
     \E out \in {update_board(colRows, cardRows, board, utc)} :
       /\ sessions' = auth.sessions
       /\ IF ~auth.ok
          THEN /\ resp' = Response(Unauthorized.status, Unauthorized.detail, EmptyBoard)
               /\ UNCHANGED <<colRows, cardRows>>
          ELSE /\ resp' = out.resp
               /\ colRows' = out.colRows
               /\ cardRows' = out.cardRows
       /\ log' = Append(log, Logged("put", cookie, monotonic, auth.ok, resp'.status))
  /\ UNCHANGED <<utc, monotonic, payload, inputs, pc, response, parsed, get, ai, history,
                 ai_request_times, gateway, replacing, login_attempts>>

\* ai_board from the gateway call on, when the call raises
GatewayRaised(failure, cols, cards) == AiOutcome(failure.status, failure.detail, cols, cards, 0)

\* POST /api/ai/board
GuardAi ==
  /\ Len(log) < MaxGuarded
  /\ \E cookie \in Cookies, messages \in MessageLists :
     \E auth \in {is_authenticated(sessions, cookie, monotonic)} :
     \E limit \in {check_rate_limit(ai_request_times, cookie, monotonic)} :
       /\ sessions' = auth.sessions
       /\ IF ~auth.ok
          THEN /\ ai' = AiDone(Unauthorized.status, Unauthorized.detail, EmptyBoard)
               /\ UNCHANGED <<colRows, cardRows, ai_request_times, response, parsed>>
          ELSE IF messages = <<>>
          THEN /\ ai' = AiDone(400, "missing_messages", EmptyBoard)
               /\ UNCHANGED <<colRows, cardRows, ai_request_times, response, parsed>>
          ELSE IF ~limit.ok
          THEN /\ ai' = AiDone(RateLimited.status, RateLimited.detail, EmptyBoard)
               /\ UNCHANGED <<colRows, cardRows, ai_request_times, response, parsed>>
          ELSE IF is_summary_request(messages)
          THEN /\ \E board \in {fetch_board(colRows, cardRows)} :
                    ai' = [AiDone(200, "", board)
                             EXCEPT !.summary = TRUE, !.schemaVersion = 1,
                                    !.assistantMessage = build_board_summary(board)]
               /\ ai_request_times' = limit.ai_request_times
               /\ UNCHANGED <<colRows, cardRows, response, parsed>>
          ELSE /\ \/ \E failure \in GatewayFailures :
                       /\ ai' = AiAnswer(GatewayRaised(failure, colRows, cardRows), NotParsed,
                                         EmptyBoard)
                       /\ UNCHANGED <<colRows, cardRows, response, parsed>>
                  \/ \E text \in GatewayResponses :
                     \E ai_response \in {parse_ai_board_response(text)} :
                     \E out \in {ai_board_write(colRows, cardRows, ai_response, utc)} :
                       /\ response' = text
                       /\ parsed' = ai_response
                       /\ ai' = AiAnswer(out, ai_response,
                                         fetch_board(out.colRows, out.cardRows))
                       /\ colRows' = out.colRows
                       /\ cardRows' = out.cardRows
               /\ ai_request_times' = limit.ai_request_times
       /\ log' = Append(log, Logged("ai", cookie, monotonic, auth.ok, ai'.status))
  /\ UNCHANGED <<utc, monotonic, payload, inputs, resp, pc, get, history, gateway, replacing, login_attempts>>

NextGuard == GuardElapse \/ GuardGet \/ GuardPut \/ GuardAi

SpecGuard == InitGuard /\ [][NextGuard]_vars

\* the cookie is the token of no session that exists and has not expired
NoValidSession(cookie) ==
  \/ cookie \notin DOMAIN sessions
  \/ monotonic - sessions[cookie] > SESSION_TTL

\* C19: a request to GET /api/board, PUT /api/board or POST /api/ai/board whose cookie
\* is no token of an existing, unexpired session is answered 401 and nothing else
\* happens: the stored board is unchanged, the request times of the rate limit are
\* unchanged, and the gateway is not called
UnauthorizedFirst ==
  [][(log' # log /\ NoValidSession(log'[Len(log')].cookie)) =>
       /\ log'[Len(log')].status = 401
       /\ colRows' = colRows /\ cardRows' = cardRows
       /\ ai_request_times' = ai_request_times
       /\ log'[Len(log')].op = "ai" => ~ai'.called]_vars

\* a session that had a call admitted came back with its token expired and was refused
ExpiredTokenRefused ==
  /\ Len(log) = 2
  /\ log[1].op = "ai" /\ log[1].cookie = "token-1" /\ log[1].status # 429
  /\ "token-1" \in DOMAIN ai_request_times
  /\ log[2].op = "ai" /\ log[2].cookie = "token-1" /\ log[2].status = 401

(***************************************************************************)
(* SpecGateway: one call of ai.call_openrouter_messages, for every         *)
(* environment (the API key set or not), provider status and provider      *)
(* body of the bounds.                                                     *)
(***************************************************************************)
\* os.environ.get("OPENROUTER_API_KEY"): "" stands for unset as well as empty
ApiKeys == {"", "sk-or-key"}

StatusCodes == {200, 399, 400, 500}

\* d.get(key, default) on a dict
DictGet(d, key, default) == IF HasKey(d, key) THEN Get(d, key) ELSE default

\* v[0]: [raised, val]
Subscript0(v) ==
  CASE v.t = "arr" -> IF v.kids = <<>> THEN [raised |-> "IndexError", val |-> JNull]
                      ELSE [raised |-> "", val |-> v.kids[1]]
    [] v.t = "str" -> IF v.s = "" THEN [raised |-> "IndexError", val |-> JNull]
                      ELSE [raised |-> "", val |-> JStr("<char>")]
    [] v.t = "obj" -> [raised |-> "KeyError", val |-> JNull]
    [] OTHER -> [raised |-> "TypeError", val |-> JNull]

\* not v
Falsy(v) ==
  \/ v \in {JNull, JScalar("bool", "false"), JStr(""), JArr(<<>>), JObj(<<>>)}
  \/ v.t = "num" /\ IntValue(v.s) = 0

\* what the call does: [raised, status, detail, message, posted]; posted says whether
\* the provider was called
GatewayReturned(message) ==
  [raised |-> "", status |-> 200, detail |-> "", message |-> message, posted |-> TRUE]

GatewayRaise(class, status, detail, posted) ==
  [raised |-> class, status |-> status, detail |-> detail, message |-> JNull,
   posted |-> posted]

GatewayUncaught(class) == GatewayRaise(class, 500, "Internal Server Error", TRUE)

\* data.get("choices", [{}])[0].get("message", {}).get("content") and what follows
ExtractContent(data) ==
  IF data.t # "obj" THEN GatewayUncaught("AttributeError")
  ELSE LET choice == Subscript0(DictGet(data, "choices", JArr(<<JObj(<<>>)>>)))
       IN IF choice.raised # "" THEN GatewayUncaught(choice.raised)
          ELSE IF choice.val.t # "obj" THEN GatewayUncaught("AttributeError")
          ELSE LET message == DictGet(choice.val, "message", JObj(<<>>))
               IN IF message.t # "obj" THEN GatewayUncaught("AttributeError")
                  ELSE LET content == DictGet(message, "content", JNull)
                       IN IF Falsy(content)
                          THEN GatewayRaise("HTTPException", 502, "openrouter_empty_response",
                                            TRUE)
                          ELSE GatewayReturned(content)

call_openrouter_messages(api_key, status_code, body) ==
  IF api_key = "" THEN GatewayRaise("HTTPException", 500, "missing_openrouter_key", FALSE)
  ELSE IF status_code >= 400 THEN GatewayRaise("HTTPException", 502, "upstream_error", TRUE)
  ELSE IF ~json_loads(body).ok THEN GatewayUncaught("JSONDecodeError")
  ELSE ExtractContent(json_loads(body).val)

\* the bodies a provider sends
Completion(choices) == Object(<<JMem("id", JStr("gen-1")), JMem("choices", choices)>>)

Choice(message) == Object(<<JMem("index", JNum("0")), JMem("message", message)>>)

Message(content) == Object(<<JMem("role", JStr("assistant")), JMem("content", content)>>)

ProviderContents == {JStr("Done"), JStr(""), JNull, JAbsent}

ProviderMessages == {Message(content) : content \in ProviderContents} \cup {JNull, JAbsent}

ProviderChoices ==
  {JArr(<<Choice(message)>>) : message \in ProviderMessages}
  \cup {JArr(<<>>), JNull, JAbsent, JArr(<<Choice(Message(JStr("Done"))),
                                          Choice(Message(JStr("Todo")))>>)}

ProviderBodies ==
  {Dumps(Completion(choices)) : choices \in ProviderChoices}
  \cup {Dumps(JArr(<<>>)), <<Prose>>}

NoOutcome == GatewayRaise("", 0, "", FALSE)

InitGateway ==
  /\ InitStore
  /\ sessions = <<>>
  /\ payload = EmptyBoard
  /\ inputs = NoInputs
  /\ resp = NoResponse
  /\ pc = "serving"
  /\ response = <<>>
  /\ parsed = NotParsed
  /\ get = IdleGet
  /\ ai = IdleAi
  /\ history = {}
  /\ ai_request_times = <<>>
  /\ log = <<>>
  /\ gateway \in [pc : {"call"}, api_key : ApiKeys, status_code : StatusCodes,
                  body : ProviderBodies, out : {NoOutcome}]
  /\ replacing = <<>>
  /\ login_attempts = <<>>

CallGateway ==
  /\ gateway.pc = "call"
  /\ gateway' = [gateway EXCEPT
                   !.pc = "done",
                   !.out = call_openrouter_messages(gateway.api_key, gateway.status_code,
                                                    gateway.body)]
  /\ UNCHANGED <<colRows, cardRows, utc, monotonic, sessions, payload, inputs, resp, pc,
                 response, parsed, get, ai, history, ai_request_times, log, replacing,
                 login_attempts>>

NextGateway == CallGateway

SpecGateway == InitGateway /\ [][NextGateway]_vars

\* the body is a completion object
Decodes(body) == json_loads(body).ok /\ json_loads(body).val.t = "obj"

\* its first choice, when choices is a non-empty list
FirstChoice(body) == Get(json_loads(body).val, "choices").kids[1]

HasChoice(body) ==
  /\ Decodes(body)
  /\ HasKey(json_loads(body).val, "choices")
  /\ Get(json_loads(body).val, "choices").t = "arr"
  /\ Get(json_loads(body).val, "choices").kids # <<>>
  /\ FirstChoice(body).t = "obj"

HasMessage(body) ==
  /\ HasChoice(body)
  /\ HasKey(FirstChoice(body), "message")
  /\ Get(FirstChoice(body), "message").t = "obj"

\* the body has a first choice with a message whose content is a string that is not empty
HasContent(body) ==
  /\ HasMessage(body)
  /\ HasKey(Get(FirstChoice(body), "message"), "content")
  /\ Get(Get(FirstChoice(body), "message"), "content").t = "str"
  /\ Get(Get(FirstChoice(body), "message"), "content").s # ""

ContentOf(body) == Get(Get(FirstChoice(body), "message"), "content")

\* the body lacks content in one of the ways the claim lists: choices missing or empty,
\* message missing, content missing or empty
LacksContent(body) ==
  /\ Decodes(body)
  /\ \/ ~HasKey(json_loads(body).val, "choices")
     \/ Get(json_loads(body).val, "choices") = JArr(<<>>)
     \/ HasChoice(body) /\ ~HasKey(FirstChoice(body), "message")
     \/ HasMessage(body) /\ ~HasKey(Get(FirstChoice(body), "message"), "content")
     \/ HasMessage(body) /\ HasKey(Get(FirstChoice(body), "message"), "content")
                         /\ ContentOf(body) = JStr("")

\* C20: call_openrouter_messages without an API key fails with 500
\* missing_openrouter_key and does not call the provider; on a provider status >= 400
\* it fails with 502 upstream_error; on a body without extractable content (choices
\* missing or empty, message missing, content missing or empty) it fails with 502
\* openrouter_empty_response; on a body with content it returns the content
GatewayOutcomes ==
  gateway.pc = "done" =>
    IF gateway.api_key = ""
    THEN gateway.out = GatewayRaise("HTTPException", 500, "missing_openrouter_key", FALSE)
    ELSE IF gateway.status_code >= 400
    THEN gateway.out = GatewayRaise("HTTPException", 502, "upstream_error", TRUE)
    ELSE /\ LacksContent(gateway.body) =>
              gateway.out = GatewayRaise("HTTPException", 502, "openrouter_empty_response",
                                         TRUE)
         /\ HasContent(gateway.body) => gateway.out = GatewayReturned(ContentOf(gateway.body))

\* C21: a POST /api/ai/board that went through the gateway and succeeded returns the
\* reply's schemaVersion and operations and the board now stored, and returns an
\* assistantMessage exactly when the reply carried one
ReturnsReplyMessage ==
  (log # <<>> /\ log[Len(log)].op = "ai" /\ ai.status = 200 /\ ai.called) =>
    /\ ai.schemaVersion = parsed.value.schemaVersion
    /\ ai.operations = parsed.value.operations
    /\ ai.board = fetch_board(colRows, cardRows)
    /\ parsed.value.assistantMessage.present <=> ai.assistantMessage # <<>>

(***************************************************************************)
(* SpecShape: one PUT /api/board from a logged-in client whose body may    *)
(* break a limit of models.py.  FastAPI validates the body as BoardPayload *)
(* before update_board runs and answers 422 when validation fails.         *)
(***************************************************************************)
\* strings that stand for texts of the length their name gives
Long101 == "<101 characters>"
Long201 == "<201 characters>"
Long10001 == "<10001 characters>"

\* len(s)
StrLen(s) ==
  CASE s = Long101 -> 101
    [] s = Long201 -> 201
    [] s = Long10001 -> 10001
    [] s = "B" -> 1
    [] OTHER -> 4

\* CardPayload: title and details within max_length
CardPayloadFits(card) == StrLen(card.title) <= 200 /\ StrLen(card.details) <= 10000

\* ColumnPayload: title and cardIds within max_length
ColumnPayloadFits(column) == StrLen(column.title) <= 100 /\ Len(column.cardIds) <= 500

\* BoardPayload: columns and cards within max_length, each of them fitting
BoardPayloadFits(board) ==
  /\ Len(board.columns) <= 20
  /\ Cardinality(DOMAIN board.cards) <= 500
  /\ \A i \in DOMAIN board.columns : ColumnPayloadFits(board.columns[i])
  /\ \A card_id \in DOMAIN board.cards : CardPayloadFits(board.cards[card_id])

UnprocessableEntity == [status |-> 422, detail |-> "validation error"]

\* bodies that break one limit each
OneCard(title, details) ==
  [columns |-> <<[id |-> "col-1", title |-> "Todo", cardIds |-> <<"card-1">>]>>,
   cards |-> [id \in {"card-1"} |-> [id |-> id, title |-> title, details |-> details]]]

ManyCards(n) ==
  [columns |-> <<[id |-> "col-1", title |-> "Todo",
                  cardIds |-> [i \in 1..n |-> ToString(i)]]>>,
   cards |-> [id \in {ToString(i) : i \in 1..n} |-> [id |-> id, title |-> "Todo",
                                                    details |-> "B"]]]

Oversized ==
  {OneCard(Long201, "B"), OneCard("Todo", Long10001),
   [columns |-> <<[id |-> "col-1", title |-> Long101, cardIds |-> <<>>]>>, cards |-> <<>>],
   [columns |-> <<[id |-> "col-1", title |-> "Todo", cardIds |-> [i \in 1..501 |-> "card-1"]]>>,
    cards |-> [id \in {"card-1"} |-> BaseCard]],
   [columns |-> [i \in 1..21 |-> [id |-> ToString(i), title |-> "Todo", cardIds |-> <<>>]],
    cards |-> <<>>],
   ManyCards(501),
   [columns |-> <<>>, cards |-> [id \in {"card-1"} |-> [id |-> id, title |-> Long201,
                                                        details |-> "B"]]]}

InitShape ==
  /\ InitStore
  /\ sessions = [t \in Tokens |-> 0]
  /\ payload \in RequestBoards \cup Oversized
  /\ inputs = NoInputs
  /\ resp = NoResponse
  /\ pc = "request"
  /\ NoOthers

\* PUT /api/board: the body is validated, then update_board runs
PutValidated ==
  /\ pc = "request"
  /\ \E auth \in {is_authenticated(sessions, "token-1", monotonic)} :
       IF ~BoardPayloadFits(payload)
       THEN /\ resp' = Response(UnprocessableEntity.status, UnprocessableEntity.detail,
                                EmptyBoard)
            /\ UNCHANGED <<colRows, cardRows, sessions, inputs>>
       ELSE /\ sessions' = auth.sessions
            /\ IF ~auth.ok
               THEN /\ resp' = Response(Unauthorized.status, Unauthorized.detail, EmptyBoard)
                    /\ UNCHANGED <<colRows, cardRows, inputs>>
               ELSE \E out \in {update_board(colRows, cardRows, payload, utc)} :
                      /\ resp' = out.resp
                      /\ colRows' = out.colRows
                      /\ cardRows' = out.cardRows
                      /\ inputs' = build_board_inputs(payload)
  /\ pc' = "responded"
  /\ UNCHANGED <<utc, monotonic, payload, others>>

NextShape == PutValidated \/ (pc = "request" /\ Tick)

SpecShape == InitShape /\ [][NextShape]_vars

\* the payload breaks a limit: a card title over 200 characters, details over 10000, a
\* column title over 100, more than 500 cardIds in a column, more than 20 columns, more
\* than 500 cards
BreaksLimit(board) ==
  \/ \E id \in DOMAIN board.cards : StrLen(board.cards[id].title) > 200
  \/ \E id \in DOMAIN board.cards : StrLen(board.cards[id].details) > 10000
  \/ \E i \in DOMAIN board.columns : StrLen(board.columns[i].title) > 100
  \/ \E i \in DOMAIN board.columns : Len(board.columns[i].cardIds) > 500
  \/ Len(board.columns) > 20
  \/ Cardinality(DOMAIN board.cards) > 500

\* C22: a PUT /api/board whose payload breaks a field-shape limit is answered 422 and
\* the stored board is unchanged; a payload within the limits that lacks referential
\* integrity is answered 400 invalid_board
ShapeThenIntegrity ==
  pc = "responded" =>
    /\ BreaksLimit(payload) => (resp.status = 422 /\ StoreIsSeed)
    /\ (~BreaksLimit(payload) /\ ~ReferentialIntegrity(payload)) =>
         (resp.status = 400 /\ resp.detail = "invalid_board")

(***************************************************************************)
(* SpecSummary: the two pure functions of the summary shortcut, applied    *)
(* to every conversation and every board of the bounds.  The request is    *)
(* held in payload; the result is left in ai.                              *)
(***************************************************************************)
\* bound: messages of a conversation
MaxConversation == 3

ConversationContents ==
  {"Move card-1 to Done", "Give me a SUMMARY", "Summarize it", "presummary", "Summaries",
   "sum mary", ""}

Conversations ==
  SeqsUpTo([role : {"user", "assistant"}, content : ConversationContents], MaxConversation)

\* bound: cards of a column of a summarised board
MaxSummaryCards == 4

\* column c of a board, with n cards whose titles alternate, beginning as flip says
SummaryColumn(c, n) ==
  [id |-> ToString(c), title |-> IF c = 1 THEN "Todo" ELSE "Done",
   cardIds |-> [i \in 1..n |-> ToString(10 * c + i)]]

SummaryBoard(sizes, flip) ==
  [columns |-> [c \in DOMAIN sizes |-> SummaryColumn(c, sizes[c])],
   cards |-> [id \in UNION {{ToString(10 * c + i) : i \in 1..sizes[c]} : c \in DOMAIN sizes} |->
                [id |-> id,
                 title |-> IF id \in {ToString(10 * c + i) :
                                        c \in DOMAIN sizes,
                                        i \in {j \in 1..MaxSummaryCards + 1 : (j + flip) % 2 = 0}}
                           THEN "Done" ELSE "Todo",
                 details |-> "B"]]]

SummaryBoards ==
  {SummaryBoard(sizes, flip) : sizes \in SeqsUpTo(0..MaxSummaryCards, 2), flip \in {0, 1}}

InitSummary ==
  /\ InitStore
  /\ sessions = <<>>
  /\ payload \in [messages : Conversations] \cup [board : SummaryBoards]
  /\ inputs = NoInputs
  /\ resp = NoResponse
  /\ pc = "request"
  /\ NoOthers

\* is_summary_request(payload.messages)
Classify ==
  /\ pc = "request"
  /\ "messages" \in DOMAIN payload
  /\ ai' = [IdleAi EXCEPT !.pc = "classified",
                          !.summary = is_summary_request(payload.messages)]
  /\ pc' = "responded"
  /\ UNCHANGED <<colRows, cardRows, utc, monotonic, sessions, payload, inputs, resp,
                 response, parsed, get, history, ai_request_times, log, gateway, replacing, login_attempts>>

\* build_board_summary(payload.board)
Summarize ==
  /\ pc = "request"
  /\ "board" \in DOMAIN payload
  /\ ai' = [IdleAi EXCEPT !.pc = "summarized",
                          !.assistantMessage = build_board_summary(payload.board)]
  /\ pc' = "responded"
  /\ UNCHANGED <<colRows, cardRows, utc, monotonic, sessions, payload, inputs, resp,
                 response, parsed, get, history, ai_request_times, log, gateway, replacing, login_attempts>>

NextSummary == Classify \/ Summarize

SpecSummary == InitSummary /\ [][NextSummary]_vars

\* the contents of the model that hold "summarize" or "summary" in some letter case
AsksSummary == {"Give me a SUMMARY", "Summarize it", "presummary"}

UserMessages(messages) == {i \in DOMAIN messages : messages[i].role = "user"}

\* C23: is_summary_request is true exactly when the conversation has a message with
\* role user and the most recent one holds "summarize" or "summary" in its lowercased
\* content; older user messages and assistant messages do not count
LatestUserMessageDecides ==
  (pc = "responded" /\ ai.pc = "classified") =>
    LET users == UserMessages(payload.messages)
    IN ai.summary <=>
         /\ users # {}
         /\ payload.messages[CHOOSE i \in users : \A j \in users : j <= i].content
              \in AsksSummary

\* an older user message and a later assistant message asked for a summary, the latest
\* user message did not, and the request was not taken for a summary request
OlderMessagesIgnored ==
  /\ pc = "responded" /\ ai.pc = "classified"
  /\ Len(payload.messages) = 3
  /\ payload.messages[1] = [role |-> "user", content |-> "Give me a SUMMARY"]
  /\ payload.messages[2] = [role |-> "user", content |-> "Summaries"]
  /\ payload.messages[3] = [role |-> "assistant", content |-> "Summarize it"]
  /\ ~ai.summary

\* the titles of the cards of a column, in the column's order
TitlesOf(board, column) == [j \in DOMAIN column.cardIds |-> board.cards[column.cardIds[j]].title]

\* the line of a column states its title and card count, then "No cards." when it has
\* none, else its first up to 3 titles with "; " between them, and "; ..." after them
\* exactly when it has more than 3
ColumnLine(line, board, column) ==
  LET titles == TitlesOf(board, column)
      n == Len(titles)
      shown == IF n > 3 THEN 3 ELSE n
  IN /\ SubSeq(line, 1, 4) = <<column.title, " (", ToString(n), "): ">>
     /\ IF n = 0 THEN line[5] = "No cards." /\ Len(line) = 5
        ELSE /\ \A j \in 1..shown : line[3 + 2 * j] = titles[j]
             /\ \A j \in 1..(shown - 1) : line[4 + 2 * j] = "; "
             /\ Len(line) = 3 + 2 * shown + (IF n > 3 THEN 1 ELSE 0)
             /\ n > 3 => line[Len(line)] = "; ..."

\* C24: the summary's first line gives the number of columns and of cards; after it
\* comes one line per column, in column order, with the column's title, card count and
\* the first up to 3 card titles joined by "; ", the marker "..." following iff the
\* column has more than 3 cards, and "No cards." for a column without cards
SummaryText ==
  (pc = "responded" /\ ai.pc = "summarized") =>
    LET board == payload.board
        summary == ai.assistantMessage
    IN /\ Len(summary) = 1 + Len(board.columns)
       /\ summary[1] = <<"Summary: ", ToString(Len(board.columns)), " columns, ",
                         ToString(Cardinality(DOMAIN board.cards)), " cards.">>
       /\ \A i \in DOMAIN board.columns : ColumnLine(summary[i + 1], board, board.columns[i])

\* a board with an empty column and a column of four cards was summarised
FourCardsSummarised ==
  /\ pc = "responded" /\ ai.pc = "summarized"
  /\ Len(payload.board.columns) = 2
  /\ payload.board.columns[1].cardIds = <<>>
  /\ Len(payload.board.columns[2].cardIds) = 4
  /\ ai.assistantMessage[3][Len(ai.assistantMessage[3])] = "; ..."

(***************************************************************************)
(* SpecReplace: replacements of the board by two connections, one after    *)
(* the other or overlapping.  replace_board's SELECT runs before the       *)
(* connection has a transaction (sqlite3 opens one at the first DELETE),   *)
(* so another connection may commit between the two.                       *)
(***************************************************************************)
Connections == {1, 2}

\* the two shapes a card of a replacement has
CardShapes ==
  {[column_id |-> "col-1", title |-> "Todo", details |-> "B", position |-> 0],
   [column_id |-> "col-backlog", title |-> "Done", details |-> "", position |-> 1]}

ShapedCard(id, shape) ==
  [id |-> id, column_id |-> shape.column_id, title |-> shape.title,
   details |-> shape.details, position |-> shape.position]

\* the card lists of the replacements: any of the model's cards, each at most once
ReplacingCards ==
  {ks \in SeqsUpTo({ShapedCard(id, shape) : id \in CardIds, shape \in CardShapes}, MaxInputs) :
     \A i, j \in DOMAIN ks : i < j => IdRank(ks[i].id) < IdRank(ks[j].id)}

ReplacingColumns ==
  <<[id |-> "col-backlog", title |-> "Todo", position |-> 0],
    [id |-> "col-1", title |-> "Done", position |-> 1]>>

NotReplacing == [pc |-> "idle", cards |-> <<>>, existing_created |-> <<>>]

InitReplace ==
  /\ InitStore
  /\ sessions = [t \in Tokens |-> 0]
  /\ payload = EmptyBoard
  /\ inputs = NoInputs
  /\ resp = NoResponse
  /\ pc = "request"
  /\ response = <<>>
  /\ parsed = NotParsed
  /\ get = IdleGet
  /\ ai = IdleAi
  /\ history = {}
  /\ ai_request_times = <<>>
  /\ log = <<>>
  /\ gateway = <<>>
  /\ replacing = [c \in Connections |-> NotReplacing]
  /\ login_attempts = <<>>

\* replace_board up to its SELECT, on connection c
ReplaceSelect(c) ==
  /\ replacing[c].pc = "idle"
  /\ \E cards \in ReplacingCards :
       replacing' = [replacing EXCEPT
                       ![c] = [pc |-> "selected", cards |-> cards,
                               existing_created |-> SelectCreated(cardRows)]]
  /\ UNCHANGED <<colRows, cardRows, utc, monotonic, sessions, payload, inputs, resp, pc,
                 response, parsed, get, ai, history, ai_request_times, log, gateway,
                 login_attempts>>

\* replace_board from its first DELETE to the end of the `with conn:` block
ReplaceWrite(c) ==
  /\ replacing[c].pc = "selected"
  /\ LET txn == ReplaceSelected(replacing[c].existing_created, colRows, cardRows,
                                ReplacingColumns, replacing[c].cards, utc)
         after == ConnectionExit(colRows, cardRows, txn)
     IN /\ colRows' = after.colRows
        /\ cardRows' = after.cardRows
  /\ replacing' = [replacing EXCEPT ![c] = NotReplacing]
  /\ UNCHANGED <<utc, monotonic, sessions, payload, inputs, resp, pc,
                 response, parsed, get, ai, history, ai_request_times, log, gateway,
                 login_attempts>>

ReplaceTick ==
  /\ utc < MaxUtc
  /\ utc' = utc + 1
  /\ UNCHANGED <<colRows, cardRows, monotonic, sessions, payload, inputs, resp, pc,
                 response, parsed, get, ai, history, ai_request_times, log, gateway,
                 replacing, login_attempts>>

NextReplace ==
  \/ \E c \in Connections : ReplaceSelect(c)
  \/ \E c \in Connections : ReplaceWrite(c)
  \/ ReplaceTick

SpecReplace == InitReplace /\ [][NextReplace]_vars

GatewayOutstanding == ai.pc = "gateway"

\* the board was read once before the gateway call, and nothing was written before it
ReadOnceBeforeCall ==
  GatewayOutstanding => (ai.reads = 1 /\ ai.gateway_calls = 0 /\ ai.writes = 0)

\* a request that entered the gateway made one call, and wrote at most once, after
\* the reply had passed parse_ai_board_response and build_board_inputs
OneCallOneWrite ==
  (ai.pc = "done" /\ ai.called) =>
    /\ ai.reads = 1
    /\ ai.gateway_calls = 1
    /\ ai.writes <= 1
    /\ ai.writes = 1 => ai.status \in {200, 500}

\* C26: a POST /api/ai/board that reaches the gateway reads the board once before the
\* call, calls the gateway once, writes at most once after validation, and holds no
\* database connection while the call is outstanding
OneReadOneCallOneWrite ==
  /\ ReadOnceBeforeCall
  /\ OneCallOneWrite
  /\ GatewayOutstanding => ai.connections = 0

(***************************************************************************)
(* SpecLastWriter: one client's POST /api/ai/board and other clients' PUT  *)
(* /api/board on the seeded board, with the gateway's reply kept in        *)
(* response and parsed once the AI request has used it.                    *)
(***************************************************************************)
InitLastWriter ==
  /\ InitStore
  /\ sessions = create_session([t \in {} |-> 0], "token-1", 0)
  /\ payload = EmptyBoard
  /\ inputs = NoInputs
  /\ resp = NoResponse
  /\ pc = "serving"
  /\ response = <<>>
  /\ parsed = NotParsed
  /\ get = IdleGet
  /\ ai = IdleAi
  /\ history = {fetch_board(colRows, cardRows)}
  /\ NoCalls

\* ai_board from the return of call_openrouter_messages on
LastWriterApply ==
  /\ ai.pc = "gateway"
  /\ \E text \in GatewayResponses :
       /\ AiApplyReply(text)
       /\ response' = text
       /\ parsed' = parse_ai_board_response(text)
  /\ UNCHANGED <<utc, monotonic, sessions, payload, inputs, resp, pc, get,
                 ai_request_times, log, gateway, replacing, login_attempts>>

NextLastWriter == Put \/ AiStart \/ AiCards \/ LastWriterApply

SpecLastWriter == InitLastWriter /\ [][NextLastWriter]_vars

\* C27: when a PUT has committed between the board read of a POST /api/ai/board and
\* its write, and the gateway's reply is a valid one, the AI request answers 200 and
\* the stored board is the reply's board: the PUT's board is overwritten
LastWriterWins ==
  [][(/\ ai.pc = "gateway" /\ ai'.pc = "done"
      /\ resp.status = 200
      /\ fetch_board(colRows, cardRows) # ai.board
      /\ parsed'.raised = ""
      /\ ReferentialIntegrity(parsed'.value.board))
       => (/\ ai'.status = 200
           /\ ai'.board = parsed'.value.board
           /\ fetch_board(colRows', cardRows') = parsed'.value.board)]_vars

(***************************************************************************)
(* SpecRecord: POST /api/ai/board requests, each handled from start to     *)
(* end, with every cookie and message list of the bounds, by a session     *)
(* one call short of its rate limit.                                       *)
(***************************************************************************)
InitRecord ==
  /\ InitStore
  /\ sessions = create_session(<<>>, "token-1", 0)
  /\ payload = EmptyBoard
  /\ inputs = NoInputs
  /\ resp = NoResponse
  /\ pc = "serving"
  /\ response = <<>>
  /\ parsed = NotParsed
  /\ get = IdleGet
  /\ ai = IdleAi
  /\ history = {}
  /\ ai_request_times = [t \in {"token-1"} |-> [i \in 1..(AI_RATE_LIMIT - 1) |-> 0]]
  /\ log = <<>>
  /\ gateway = <<>>
  /\ replacing = <<>>
  /\ login_attempts = <<>>

NextRecord == GuardElapse \/ GuardAi

SpecRecord == InitRecord /\ [][NextRecord]_vars

\* the request times kept for a session
TimesOf(store, session_token) ==
  IF session_token \in DOMAIN store THEN store[session_token] ELSE <<>>

\* C28: a POST /api/ai/board that passes authentication, has messages and is admitted
\* by the rate limit adds exactly one time, that of the request, to the times of its
\* session, whether it is then answered by the summary, fails at the gateway, fails
\* validation or succeeds; a request answered 401, 400 missing_messages or 429 adds
\* none.  The times of the other sessions are never touched.
RecordsOneTimestamp ==
  [][(log' # log /\ log'[Len(log')].op = "ai") =>
       LET call == log'[Len(log')]
           before == TimesOf(ai_request_times, call.cookie)
           after == TimesOf(ai_request_times', call.cookie)
       IN /\ IF call.status \in {401, 429} \/ ai'.detail = "missing_messages"
             THEN ai_request_times' = ai_request_times
             ELSE /\ after = Append(SelectSeq(before, LAMBDA t : call.now - t < 60), call.now)
                  /\ Len(SelectSeq(after, LAMBDA t : t = call.now)) =
                       1 + Len(SelectSeq(before, LAMBDA t : t = call.now))
          /\ \A t \in DOMAIN ai_request_times :
               t # call.cookie => (t \in DOMAIN ai_request_times'
                                   /\ ai_request_times'[t] = ai_request_times[t])]_vars

\* a request that failed with 502 filled its session's window, so that the session's
\* next request was refused
FailedCallCounted ==
  /\ Len(log) = 2
  /\ log[1].cookie = "token-1" /\ log[1].status = 502
  /\ log[2].cookie = "token-1" /\ log[2].status = 429
  /\ Len(ai_request_times["token-1"]) = AI_RATE_LIMIT

(***************************************************************************)
(* SpecLogin: POST /api/auth/login from two client addresses, each request *)
(* handled from start to end.  The log keeps, per attempt, [op, ip, now,   *)
(* valid, status, sessions]: valid tells whether the credentials sent were *)
(* the configured ones, sessions is the number of sessions after it.       *)
(***************************************************************************)
LOGIN_RATE_LIMIT == 10

LOGIN_RATE_WINDOW == 60

Addresses == {"10.0.0.1", "10.0.0.2"}

\* os.environ of a configured server
Environ == [PM_USERNAME |-> "user", PM_PASSWORD |-> "password"]

LoginRequests == [username : {"user", "admin"}, password : {"password", "guess"}]

LoginInstants ==
  {0, LOGIN_RATE_WINDOW - 1, LOGIN_RATE_WINDOW, 2 * LOGIN_RATE_WINDOW - 1,
   2 * LOGIN_RATE_WINDOW}

\* get_credentials: [ok, username, password]; ok is FALSE when it raises 500
get_credentials(environ) ==
  IF environ.PM_USERNAME = "" \/ environ.PM_PASSWORD = ""
  THEN [ok |-> FALSE, username |-> "", password |-> ""]
  ELSE [ok |-> TRUE, username |-> environ.PM_USERNAME, password |-> environ.PM_PASSWORD]

\* a limiter that lets every attempt pass
check_login_rate_limit_open(store, ip, now) ==
  LET attempts == IF ip \in DOMAIN store THEN store[ip] ELSE <<>>
      kept == SelectSeq(attempts, LAMBDA t : now - t < LOGIN_RATE_WINDOW)
  IN [ok |-> TRUE,
      login_attempts |->
        [a \in DOMAIN store \cup {ip} |-> IF a = ip THEN Append(kept, now) ELSE store[a]]]

\* _check_login_rate_limit: [ok, login_attempts]; ok is FALSE when it raises 429
check_login_rate_limit(store, ip, now) ==
  LET attempts == IF ip \in DOMAIN store THEN store[ip] ELSE <<>>
      kept == SelectSeq(attempts, LAMBDA t : now - t < LOGIN_RATE_WINDOW)
  IN IF Len(kept) >= LOGIN_RATE_LIMIT THEN [ok |-> FALSE, login_attempts |-> store]
     ELSE [ok |-> TRUE,
           login_attempts |->
             [a \in DOMAIN store \cup {ip} |-> IF a = ip THEN Append(kept, now) ELSE store[a]]]

\* login: [status, detail, sessions, login_attempts], token being what
\* secrets.token_hex returns if the handler gets that far
login(store, attempts, request, client_ip, token, now) ==
  LET limit == check_login_rate_limit(attempts, client_ip, now)
      valid == get_credentials(Environ)
  IN IF ~limit.ok
     THEN [status |-> 429, detail |-> "rate_limit_exceeded", sessions |-> store,
           login_attempts |-> limit.login_attempts]
     ELSE IF ~valid.ok
     THEN [status |-> 500, detail |-> "server_misconfigured", sessions |-> store,
           login_attempts |-> limit.login_attempts]
     ELSE IF request.username # valid.username \/ request.password # valid.password
     THEN [status |-> 401, detail |-> "invalid_credentials", sessions |-> store,
           login_attempts |-> limit.login_attempts]
     ELSE [status |-> 200, detail |-> "", sessions |-> create_session(store, token, now),
           login_attempts |-> limit.login_attempts]

LoggedLogin(ip, now, valid, status, count) ==
  [op |-> "login", ip |-> ip, now |-> now, valid |-> valid, status |-> status,
   sessions |-> count]

\* the first address has made LOGIN_RATE_LIMIT - 1 attempts at time 0, all with wrong
\* credentials
InitLogin ==
  /\ InitStore
  /\ sessions = [t \in {} |-> 0]
  /\ payload = EmptyBoard
  /\ inputs = NoInputs
  /\ resp = NoResponse
  /\ pc = "serving"
  /\ response = <<>>
  /\ parsed = NotParsed
  /\ get = IdleGet
  /\ ai = IdleAi
  /\ history = {}
  /\ ai_request_times = <<>>
  /\ log = [i \in 1..(LOGIN_RATE_LIMIT - 1) |-> LoggedLogin("10.0.0.1", 0, FALSE, 401, 0)]
  /\ gateway = <<>>
  /\ replacing = <<>>
  /\ login_attempts = [a \in {"10.0.0.1"} |-> [i \in 1..(LOGIN_RATE_LIMIT - 1) |-> 0]]

LoginElapse ==
  /\ \E now \in LoginInstants : now > monotonic /\ monotonic' = now
  /\ UNCHANGED <<colRows, cardRows, utc, sessions, payload, inputs, resp, pc, response,
                 parsed, get, ai, history, ai_request_times, log, gateway, replacing,
                 login_attempts>>

\* POST /api/auth/login
LoginAttempt ==
  /\ Len(log) < LOGIN_RATE_LIMIT - 1 + MaxRequests
  /\ \E client_ip \in Addresses, request \in LoginRequests :
     \E out \in {login(sessions, login_attempts, request, client_ip,
                       ToString(Len(log)), monotonic)} :
       /\ sessions' = out.sessions
       /\ login_attempts' = out.login_attempts
       /\ resp' = Response(out.status, out.detail, EmptyBoard)
       /\ log' = Append(log, LoggedLogin(client_ip, monotonic, request = [username |-> Environ.PM_USERNAME,
                                                    password |-> Environ.PM_PASSWORD],
                                         out.status, Cardinality(DOMAIN out.sessions)))
  /\ UNCHANGED <<colRows, cardRows, utc, monotonic, payload, inputs, pc, response,
                 parsed, get, ai, history, ai_request_times, gateway, replacing>>

NextLogin == LoginElapse \/ LoginAttempt

SpecLogin == InitLogin /\ [][NextLogin]_vars

\* the earlier attempts of the address of attempt i that were processed less than a
\* window before it
ProcessedInWindow(i) ==
  {j \in 1..(i - 1) : /\ log[j].ip = log[i].ip
                      /\ log[j].status # 429
                      /\ log[i].now - log[j].now < 60}

\* the number of sessions before attempt i
SessionsBefore(i) == IF i = 1 THEN 0 ELSE log[i - 1].sessions

\* C29: a login attempt is answered 429, whatever its credentials, exactly when its
\* address has had 10 attempts processed in the 60 seconds before it, successful or
\* not; so at most 10 attempts of an address are processed in a window.  An attempt
\* that is processed is answered 401 when its credentials are wrong and 200 when they
\* are right, and only the latter creates a session.
LoginRateLimit ==
  \A i \in DOMAIN log :
    IF Cardinality(ProcessedInWindow(i)) >= 10
    THEN log[i].status = 429 /\ log[i].sessions = SessionsBefore(i)
    ELSE IF ~log[i].valid
    THEN log[i].status = 401 /\ log[i].sessions = SessionsBefore(i)
    ELSE log[i].status = 200 /\ log[i].sessions = SessionsBefore(i) + 1

\* the tenth attempt of an address succeeded, its eleventh was refused although its
\* credentials were right, and a window later the address logged in again
RightCredentialsRefused ==
  \E i \in DOMAIN log :
    /\ i + 2 \in DOMAIN log
    /\ log[i].ip = "10.0.0.1" /\ log[i].status = 200 /\ log[i].now = 0
    /\ log[i + 1].ip = "10.0.0.1" /\ log[i + 1].valid /\ log[i + 1].status = 429
    /\ log[i + 1].sessions = 1
    /\ log[i + 2].ip = "10.0.0.1" /\ log[i + 2].status = 200 /\ log[i + 2].sessions = 2

====
